---- MODULE Spec2Model ----
(***************************************************************************)
(* Memory-Base: long-term object storage (memory_base/long_term_storage.py) *)
(* and the profile / knowledge-triple semantics built on it                 *)
(* (memory_base/semantics.py).                                              *)
(*                                                                          *)
(* Representation.  A Python str is a sequence of Unicode code points, a    *)
(* Python bytes object a sequence of numbers 0..255.  A Python value that   *)
(* an operation takes or returns is a pair <<kind, val>>:                   *)
(*    kind "None"  : None                                                   *)
(*    kind "bytes" : val a byte sequence                                    *)
(*    kind "str"   : val a code-point sequence                              *)
(*    kind "int"   : val an integer                                         *)
(*    kind "float" : val the lexeme of the number (a code-point sequence)   *)
(*    kind "bool"  : val TRUE or FALSE                                      *)
(*    kind "list"  : val a sequence of values (or of triples <<s, p, o>>)   *)
(*    kind "dict"  : val a sequence of <<key, value>> in insertion order    *)
(*    kind "raise" : val the name of the exception the call raised          *)
(***************************************************************************)
EXTENDS Integers, Sequences, FiniteSets, TLC

VARIABLES store, saved, last, input, payload, output, threads, db, backend

vars == <<store, saved, last, input, payload, output, threads, db, backend>>

---------------------------------------------------------------------------
(* Python values *)

PyNone == <<"None", <<>>>>

PyBytes(b) == <<"bytes", b>>

PyStr(s) == <<"str", s>>

PyInt(n) == <<"int", n>>

PyFloat(lexeme) == <<"float", lexeme>>

PyBool(b) == <<"bool", b>>

PyList(xs) == <<"list", xs>>

PyDict(kvs) == <<"dict", kvs>>

PyRaise(exc) == <<"raise", exc>>

Kind(v) == v[1]

Val(v) == v[2]

---------------------------------------------------------------------------
(* Sequence helpers *)

Min(a, b) == IF a < b THEN a ELSE b

Max(a, b) == IF a > b THEN a ELSE b

\* str.startswith(prefix)
startswith(s, prefix) ==
    /\ Len(prefix) <= Len(s)
    /\ SubSeq(s, 1, Len(prefix)) = prefix

\* s[i:i+len(w)] == w, i 1-based
MatchAt(s, i, w) ==
    /\ i + Len(w) - 1 <= Len(s)
    /\ SubSeq(s, i, i + Len(w) - 1) = w

RECURSIVE Concat(_)
Concat(ss) == IF ss = <<>> THEN <<>> ELSE Head(ss) \o Concat(Tail(ss))

\* sep.join(parts)
RECURSIVE join(_, _)
join(sep, parts) ==
    IF parts = <<>> THEN <<>>
    ELSE IF Len(parts) = 1 THEN parts[1]
    ELSE parts[1] \o sep \o join(sep, Tail(parts))

\* s.split(sep) for a one-character separator: always at least one part
RECURSIVE SplitFrom(_, _, _, _)
SplitFrom(s, i, sepChar, cur) ==
    IF i > Len(s) THEN <<cur>>
    ELSE IF s[i] = sepChar THEN <<cur>> \o SplitFrom(s, i + 1, sepChar, <<>>)
    ELSE SplitFrom(s, i + 1, sepChar, Append(cur, s[i]))

\* str.splitlines() in the place of split("\n"): every Unicode line boundary
\* ends a line
RECURSIVE SplitLinesFrom(_, _, _)
SplitLinesFrom(s, i, cur) ==
    IF i > Len(s) THEN <<cur>>
    ELSE IF s[i] \in {10, 11, 12, 13, 28, 29, 30, 133, 8232, 8233}
    THEN <<cur>> \o SplitLinesFrom(s, i + 1, <<>>)
    ELSE SplitLinesFrom(s, i + 1, Append(cur, s[i]))

splitlines(s, sepChar) == SplitLinesFrom(s, 1, <<>>)

\* the pieces of the two halves, the piece across the middle joined
SplitHalves(left, right) ==
    SubSeq(left, 1, Len(left) - 1) \o <<left[Len(left)] \o right[1]>> \o Tail(right)

RECURSIVE split(_, _)
split(s, sepChar) ==
    IF Len(s) < 16 THEN SplitFrom(s, 1, sepChar, <<>>)
    ELSE SplitHalves(split(SubSeq(s, 1, Len(s) \div 2), sepChar),
                     split(SubSeq(s, Len(s) \div 2 + 1, Len(s)), sepChar))

\* str.isspace() of one character (Unicode whitespace as str.strip() sees it)
IsPySpace(c) ==
    \/ c \in 9..13
    \/ c \in 28..32
    \/ c \in {133, 160, 5760, 8232, 8233, 8239, 8287, 12288}
    \/ c \in 8192..8202

RECURSIVE lstrip(_)
lstrip(s) ==
    IF s # <<>> /\ IsPySpace(Head(s)) THEN lstrip(Tail(s)) ELSE s

RECURSIVE rstrip(_)
rstrip(s) ==
    IF s # <<>> /\ IsPySpace(s[Len(s)]) THEN rstrip(SubSeq(s, 1, Len(s) - 1)) ELSE s

\* str.strip()
strip(s) == rstrip(lstrip(s))

\* str.lower() of one character, for the scripts the model draws from
\* (ASCII and Latin-1 letters; CJK and symbols have no case)
LowerChar(c) ==
    IF c \in 65..90 THEN c + 32
    ELSE IF c \in 192..222 /\ c # 215 THEN c + 32
    ELSE c

\* str.lower()
lower(s) == [i \in 1..Len(s) |-> LowerChar(s[i])]

\* needle in haystack (substring test)
Contains(hay, needle) ==
    \E i \in 1..(Len(hay) - Len(needle) + 1) : SubSeq(hay, i, i + Len(needle) - 1) = needle

---------------------------------------------------------------------------
(* UTF-8: str.encode("utf-8") and bytes.decode("utf-8") *)

IsSurrogate(c) == c \in 55296..57343

EncodeChar(c) ==
    IF c < 128 THEN <<c>>
    ELSE IF c < 2048 THEN <<192 + (c \div 64), 128 + (c % 64)>>
    ELSE IF c < 65536 THEN
        <<224 + (c \div 4096), 128 + ((c \div 64) % 64), 128 + (c % 64)>>
    ELSE <<240 + (c \div 262144), 128 + ((c \div 4096) % 64),
           128 + ((c \div 64) % 64), 128 + (c % 64)>>

RECURSIVE Utf8Encode(_)
Utf8Encode(s) ==
    IF s = <<>> THEN <<>>
    ELSE IF Len(s) = 1 THEN EncodeChar(s[1])
    ELSE Utf8Encode(SubSeq(s, 1, Len(s) \div 2))
         \o Utf8Encode(SubSeq(s, Len(s) \div 2 + 1, Len(s)))

IsCont(b, i) == i <= Len(b) /\ b[i] \in 128..191

\* Decoding from byte i on: the code points, or <<-1>> at the end when the
\* bytes are not UTF-8 (UnicodeDecodeError).
RECURSIVE Utf8DecodeFrom(_, _)
Utf8DecodeFrom(b, i) ==
    IF i > Len(b) THEN <<>>
    ELSE LET b0 == b[i] IN
      IF b0 < 128 THEN <<b0>> \o Utf8DecodeFrom(b, i + 1)
      ELSE IF b0 \in 194..223 /\ IsCont(b, i + 1) THEN
          <<(b0 - 192) * 64 + (b[i + 1] - 128)>> \o Utf8DecodeFrom(b, i + 2)
      ELSE IF b0 \in 224..239 /\ IsCont(b, i + 1) /\ IsCont(b, i + 2) THEN
          LET c == (b0 - 224) * 4096 + (b[i + 1] - 128) * 64 + (b[i + 2] - 128) IN
          IF c < 2048 \/ IsSurrogate(c) THEN <<-1>>
          ELSE <<c>> \o Utf8DecodeFrom(b, i + 3)
      ELSE IF b0 \in 240..244 /\ IsCont(b, i + 1) /\ IsCont(b, i + 2) /\ IsCont(b, i + 3) THEN
          LET c == (b0 - 240) * 262144 + (b[i + 1] - 128) * 4096
                   + (b[i + 2] - 128) * 64 + (b[i + 3] - 128) IN
          IF c < 65536 \/ c > 1114111 THEN <<-1>>
          ELSE <<c>> \o Utf8DecodeFrom(b, i + 4)
      ELSE <<-1>>

\* bytes.decode("utf-8"): PyStr(text) or PyRaise("UnicodeDecodeError")
\* the bytes are cut where a character starts near the middle, and the two
\* parts decoded one after the other; an error in the first part ends it
RECURSIVE Utf8DecodeAll(_)
Utf8DecodeAll(b) ==
    LET h == Len(b) \div 2
        cuts == {m \in (h + 1)..(h + 4) : m <= Len(b) /\ b[m] \notin 128..191}
    IN IF Len(b) < 16 \/ cuts = {} THEN Utf8DecodeFrom(b, 1)
       ELSE LET m == CHOOSE x \in cuts : \A y \in cuts : x <= y
                left == Utf8DecodeAll(SubSeq(b, 1, m - 1))
            IN IF left # <<>> /\ left[Len(left)] = -1 THEN left
               ELSE left \o Utf8DecodeAll(SubSeq(b, m, Len(b)))

Utf8Decode(b) ==
    LET cs == Utf8DecodeAll(b) IN
    IF cs # <<>> /\ cs[Len(cs)] = -1 THEN PyRaise("UnicodeDecodeError") ELSE PyStr(cs)

---------------------------------------------------------------------------
(* json.dumps(obj, ensure_ascii=False) *)

\* '\\u{0:04x}': the lower-case hex digit of n \in 0..15
HexDigit(n) == IF n < 10 THEN 48 + n ELSE 87 + n

\* the replacement of one character under ensure_ascii=True: non-ASCII
\* becomes \uxxxx (a surrogate pair above U+FFFF)
Hex4(n) == <<92, 117, HexDigit(n \div 4096), HexDigit((n \div 256) % 16),
             HexDigit((n \div 16) % 16), HexDigit(n % 16)>>

EscapeCharAscii(c) ==
    IF c = 34 THEN <<92, 34>>
    ELSE IF c = 92 THEN <<92, 92>>
    ELSE IF c = 10 THEN <<92, 110>>
    ELSE IF c = 13 THEN <<92, 114>>
    ELSE IF c = 9 THEN <<92, 116>>
    ELSE IF c = 8 THEN <<92, 98>>
    ELSE IF c = 12 THEN <<92, 102>>
    ELSE IF c < 32 \/ c \in 127..65535 THEN Hex4(c)
    ELSE IF c > 65535
    THEN Hex4(55296 + ((c - 65536) \div 1024)) \o Hex4(56320 + ((c - 65536) % 1024))
    ELSE <<c>>

\* py_encode_basestring's replacement of one character: only '"', '\' and the
\* control characters below 0x20 are escaped; everything else, non-ASCII
\* included, stays literal (ensure_ascii=False).
EscapeChar(c) ==
    IF c = 34 THEN <<92, 34>>
    ELSE IF c = 92 THEN <<92, 92>>
    ELSE IF c = 10 THEN <<92, 110>>
    ELSE IF c = 13 THEN <<92, 114>>
    ELSE IF c = 9 THEN <<92, 116>>
    ELSE IF c = 8 THEN <<92, 98>>
    ELSE IF c = 12 THEN <<92, 102>>
    ELSE IF c < 32 THEN <<92, 117, 48, 48, HexDigit(c \div 16), HexDigit(c % 16)>>
    ELSE <<c>>

RECURSIVE EscapeChars(_)
EscapeChars(s) ==
    IF s = <<>> THEN <<>> ELSE EscapeChar(Head(s)) \o EscapeChars(Tail(s))

\* py_encode_basestring(s): the JSON string literal of s
encode_basestring(s) == <<34>> \o EscapeChars(s) \o <<34>>

RECURSIVE Digits(_)
Digits(n) == IF n < 10 THEN <<48 + n>> ELSE Append(Digits(n \div 10), 48 + (n % 10))

\* int.__repr__
IntRepr(n) == IF n < 0 THEN <<45>> \o Digits(-n) ELSE Digits(n)

\* JSONEncoder.iterencode with the default separators (', ', ': ')
RECURSIVE json_dumps(_)
json_dumps(v) ==
    CASE Kind(v) = "str" -> encode_basestring(Val(v))
      [] Kind(v) = "None" -> <<110, 117, 108, 108>>
      [] Kind(v) = "bool" ->
            IF Val(v) THEN <<116, 114, 117, 101>> ELSE <<102, 97, 108, 115, 101>>
      [] Kind(v) = "int" -> IntRepr(Val(v))
      [] Kind(v) = "float" -> Val(v)
      [] Kind(v) = "list" ->
            <<91>> \o join(<<44, 32>>, [i \in 1..Len(Val(v)) |-> json_dumps(Val(v)[i])]) \o <<93>>
      [] Kind(v) = "dict" ->
            <<123>>
            \o join(<<44, 32>>,
                    [i \in 1..Len(Val(v)) |->
                        encode_basestring(Val(v)[i][1]) \o <<58, 32>> \o json_dumps(Val(v)[i][2])])
            \o <<125>>

\* str.encode("utf-8"): a lone surrogate cannot be encoded
encode_utf8(s) ==
    IF \E i \in 1..Len(s) : IsSurrogate(s[i]) THEN PyRaise("UnicodeEncodeError")
    ELSE PyBytes(Utf8Encode(s))

---------------------------------------------------------------------------
(* json.loads(text): json.decoder / json.scanner.  A scan returns           *)
(* [ok, val, end]: end is the (1-based) index of the first character after  *)
(* the value; ok = FALSE is JSONDecodeError.                                *)

Scanned(v, e) == [ok |-> TRUE, val |-> v, end |-> e]

ScanFail == [ok |-> FALSE, val |-> PyNone, end |-> 0]

\* WHITESPACE = re.compile(r'[ \t\n\r]*')
IsJsonWs(c) == c \in {32, 9, 10, 13}

RECURSIVE SkipWs(_, _)
SkipWs(s, i) == IF i <= Len(s) /\ IsJsonWs(s[i]) THEN SkipWs(s, i + 1) ELSE i

IsDigit(c) == c \in 48..57

HexVal(c) ==
    IF c \in 48..57 THEN c - 48
    ELSE IF c \in 97..102 THEN c - 87
    ELSE IF c \in 65..70 THEN c - 55
    ELSE -1

\* _decode_uXXXX: the value of the four hex digits at s[i..i+3], or -1
DecodeUXXXX(s, i) ==
    IF i + 3 <= Len(s) /\ \A j \in i..(i + 3) : HexVal(s[j]) >= 0
    THEN HexVal(s[i]) * 4096 + HexVal(s[i + 1]) * 256 + HexVal(s[i + 2]) * 16 + HexVal(s[i + 3])
    ELSE -1

\* BACKSLASH: the character a one-letter escape stands for, or -1
Backslash(e) ==
    CASE e = 34 -> 34
      [] e = 92 -> 92
      [] e = 47 -> 47
      [] e = 98 -> 8
      [] e = 102 -> 12
      [] e = 110 -> 10
      [] e = 114 -> 13
      [] e = 116 -> 9
      [] OTHER -> -1

\* py_scanstring(s, end, strict=True), from the character after the opening quote
RECURSIVE scanstring(_, _, _)
scanstring(s, i, acc) ==
    IF i > Len(s) THEN ScanFail
    ELSE LET c == s[i] IN
      IF c = 34 THEN Scanned(PyStr(acc), i + 1)
      ELSE IF c = 92 THEN
        IF i + 1 > Len(s) THEN ScanFail
        ELSE IF s[i + 1] = 117 THEN
          LET uni == DecodeUXXXX(s, i + 2) IN
          IF uni < 0 THEN ScanFail
          ELSE IF uni \in 55296..56319 /\ MatchAt(s, i + 6, <<92, 117>>)
                  /\ DecodeUXXXX(s, i + 8) \in 56320..57343
          THEN scanstring(s, i + 12,
                 Append(acc, 65536 + (uni - 55296) * 1024 + (DecodeUXXXX(s, i + 8) - 56320)))
          ELSE scanstring(s, i + 6, Append(acc, uni))
        ELSE IF Backslash(s[i + 1]) < 0 THEN ScanFail
        ELSE scanstring(s, i + 2, Append(acc, Backslash(s[i + 1])))
      ELSE IF c < 32 THEN ScanFail
      ELSE scanstring(s, i + 1, Append(acc, c))

RECURSIVE SkipDigits(_, _)
SkipDigits(s, i) == IF i <= Len(s) /\ IsDigit(s[i]) THEN SkipDigits(s, i + 1) ELSE i

RECURSIVE DigitsValue(_, _, _, _)
DigitsValue(s, i, j, acc) ==
    IF i >= j THEN acc ELSE DigitsValue(s, i + 1, j, acc * 10 + (s[i] - 48))

\* NUMBER_RE = (-?(?:0|[1-9][0-9]*))(\.[0-9]+)?([eE][-+]?[0-9]+)?
match_number(s, i) ==
    LET neg == i <= Len(s) /\ s[i] = 45
        d0 == IF neg THEN i + 1 ELSE i
        d1 == IF d0 <= Len(s) /\ s[d0] = 48 THEN d0 + 1 ELSE SkipDigits(s, d0)
        f1 == IF d1 <= Len(s) /\ s[d1] = 46 /\ SkipDigits(s, d1 + 1) > d1 + 1
              THEN SkipDigits(s, d1 + 1) ELSE d1
        e0 == IF f1 <= Len(s) /\ s[f1] \in {101, 69}
              THEN (IF f1 + 1 <= Len(s) /\ s[f1 + 1] \in {45, 43} THEN f1 + 2 ELSE f1 + 1)
              ELSE f1
        e1 == IF e0 > f1 /\ SkipDigits(s, e0) > e0 THEN SkipDigits(s, e0) ELSE f1
        n == DigitsValue(s, d0, d1, 0)
    IN IF d1 = d0 THEN ScanFail
       ELSE IF e1 = d1 THEN Scanned(PyInt(IF neg THEN -n ELSE n), d1)
       ELSE Scanned(PyFloat(SubSeq(s, i, e1 - 1)), e1)

\* dict[key] = value: a repeated key keeps its place and takes the new value
DictSet(kvs, k, v) ==
    IF \E i \in 1..Len(kvs) : kvs[i][1] = k
    THEN [i \in 1..Len(kvs) |-> IF kvs[i][1] = k THEN <<k, v>> ELSE kvs[i]]
    ELSE Append(kvs, <<k, v>>)

RECURSIVE scan_once(_, _)
RECURSIVE ArrayItems(_, _, _)
RECURSIVE ObjectItems(_, _, _)

\* JSONArray after a value: ']' ends the array, ',' announces the next value
ArrayDelim(s, e, values) ==
    IF e > Len(s) THEN ScanFail
    ELSE IF s[e] = 93 THEN Scanned(PyList(values), e + 1)
    ELSE IF s[e] = 44 THEN ArrayItems(s, SkipWs(s, e + 1), values)
    ELSE ScanFail

\* JSONArray with the scan r of the next value
ArrayValue(s, r, acc) ==
    IF ~r.ok THEN ScanFail ELSE ArrayDelim(s, SkipWs(s, r.end), Append(acc, r.val))

\* the loop of JSONArray, from the first character of the next value
ArrayItems(s, i, acc) == ArrayValue(s, scan_once(s, i), acc)

\* JSONArray(s_and_end, scan_once), from the character after '['
JSONArray(s, i) ==
    IF SkipWs(s, i) <= Len(s) /\ s[SkipWs(s, i)] = 93
    THEN Scanned(PyList(<<>>), SkipWs(s, i) + 1)
    ELSE ArrayItems(s, SkipWs(s, i), <<>>)

\* JSONObject after a value: '}' ends the object, ',' announces the next key
ObjectDelim(s, e, pairs) ==
    IF e > Len(s) THEN ScanFail
    ELSE IF s[e] = 125 THEN Scanned(PyDict(pairs), e + 1)
    ELSE IF s[e] = 44 THEN ObjectItems(s, SkipWs(s, e + 1), pairs)
    ELSE ScanFail

\* JSONObject with the scan r of the value of key
ObjectValue(s, key, r, acc) ==
    IF ~r.ok THEN ScanFail ELSE ObjectDelim(s, SkipWs(s, r.end), DictSet(acc, key, r.val))

\* JSONObject after a key: the ':' at c, then the value
ObjectColon(s, key, c, acc) ==
    IF c > Len(s) \/ s[c] # 58 THEN ScanFail
    ELSE ObjectValue(s, key, scan_once(s, SkipWs(s, c + 1)), acc)

\* JSONObject with the scan k of the next key
ObjectKey(s, k, acc) ==
    IF ~k.ok THEN ScanFail ELSE ObjectColon(s, Val(k.val), SkipWs(s, k.end), acc)

\* the loop of JSONObject, from the opening quote of the next key
ObjectItems(s, i, acc) ==
    IF i > Len(s) \/ s[i] # 34 THEN ScanFail
    ELSE ObjectKey(s, scanstring(s, i + 1, <<>>), acc)

\* JSONObject(s_and_end, ...), from the character after '{'
JSONObject(s, i) ==
    IF SkipWs(s, i) <= Len(s) /\ s[SkipWs(s, i)] = 125
    THEN Scanned(PyDict(<<>>), SkipWs(s, i) + 1)
    ELSE ObjectItems(s, SkipWs(s, i), <<>>)

\* _scan_once from the number pattern on: num is match_number(s, i)
ScanNumber(s, i, num) ==
    IF num.ok THEN num
    ELSE IF MatchAt(s, i, <<78, 97, 78>>) THEN Scanned(PyFloat(<<78, 97, 78>>), i + 3)
    ELSE IF MatchAt(s, i, <<73, 110, 102, 105, 110, 105, 116, 121>>)
    THEN Scanned(PyFloat(SubSeq(s, i, i + 7)), i + 8)
    ELSE IF MatchAt(s, i, <<45, 73, 110, 102, 105, 110, 105, 116, 121>>)
    THEN Scanned(PyFloat(SubSeq(s, i, i + 8)), i + 9)
    ELSE ScanFail

\* py_make_scanner._scan_once
scan_once(s, i) ==
    IF i > Len(s) THEN ScanFail
    ELSE IF s[i] = 34 THEN scanstring(s, i + 1, <<>>)
    ELSE IF s[i] = 123 THEN JSONObject(s, i + 1)
    ELSE IF s[i] = 91 THEN JSONArray(s, i + 1)
    ELSE IF MatchAt(s, i, <<110, 117, 108, 108>>) THEN Scanned(PyNone, i + 4)
    ELSE IF MatchAt(s, i, <<116, 114, 117, 101>>) THEN Scanned(PyBool(TRUE), i + 4)
    ELSE IF MatchAt(s, i, <<102, 97, 108, 115, 101>>) THEN Scanned(PyBool(FALSE), i + 5)
    ELSE ScanNumber(s, i, match_number(s, i))

\* JSONDecoder.decode with the scan r of the value: anything but whitespace
\* after the value is JSONDecodeError ("Extra data")
Decoded(s, r) ==
    IF ~r.ok THEN PyRaise("JSONDecodeError")
    ELSE IF SkipWs(s, r.end) # Len(s) + 1 THEN PyRaise("JSONDecodeError")
    ELSE r.val

\* json.loads(s) for a str s: a leading BOM or no value is JSONDecodeError
json_loads(s) ==
    IF s # <<>> /\ s[1] = 65279 THEN PyRaise("JSONDecodeError")
    ELSE Decoded(s, scan_once(s, SkipWs(s, 1)))

---------------------------------------------------------------------------
(* long_term_storage.py: key scheme and InMemoryLongTermStorage.  The      *)
(* store is self._store, a dict: a sequence of <<key, bytes>> in insertion  *)
(* order, no key twice.                                                     *)

\* "profiles/"
ProfilesPrefix == <<112, 114, 111, 102, 105, 108, 101, 115, 47>>

\* "knowledge/"
KnowledgePrefix == <<107, 110, 111, 119, 108, 101, 100, 103, 101, 47>>

\* a key without the id's place between prefix and suffix kept apart
profile_key_flat(user_id) ==
    ProfilesPrefix \o SelectSeq(user_id, LAMBDA c : c # 47) \o <<46, 106, 115, 111, 110>>

\* f"profiles/{user_id}.json"
profile_key(user_id) == ProfilesPrefix \o user_id \o <<46, 106, 115, 111, 110>>

\* one key for the triples of every user
knowledge_key_shared(user_id) == KnowledgePrefix \o <<46, 106, 115, 111, 110, 108>>

\* f"knowledge/{user_id}.jsonl"
knowledge_key(user_id) == KnowledgePrefix \o user_id \o <<46, 106, 115, 111, 110, 108>>

\* InMemoryLongTermStorage.__init__
EmptyStore == <<>>

HasKey(st, key) == \E i \in 1..Len(st) : st[i][1] = key

\* body.encode("utf-8") if isinstance(body, str) else body
EncodeBody(body) == IF Kind(body) = "str" THEN encode_utf8(Val(body)) ELSE body

\* What a call that may change the store leaves: the store and what it
\* returned (PyNone) or raised
Outcome(st, ret) == [store |-> st, ret |-> ret]

\* d[key] for a key of d
Lookup(d, key) == d[CHOOSE i \in 1..Len(d) : d[i][1] = key][2]

\* put_object that appends to the value the key already holds
put_object_append(st, key, body, content_type) ==
    LET b == EncodeBody(body) IN
    IF Kind(b) = "raise" THEN Outcome(st, b)
    ELSE IF HasKey(st, key) THEN Outcome(DictSet(st, key, Lookup(st, key) \o Val(b)), PyNone)
    ELSE Outcome(DictSet(st, key, Val(b)), PyNone)

\* put_object that keeps the value a key already holds
put_object_setdefault(st, key, body, content_type) ==
    IF HasKey(st, key) THEN Outcome(st, PyNone)
    ELSE Outcome(Append(st, <<key, Val(EncodeBody(body))>>), PyNone)

\* InMemoryLongTermStorage.put_object (the store is unchanged when encoding
\* the body raises)
put_object(st, key, body, content_type) ==
    LET b == EncodeBody(body) IN
    IF Kind(b) = "raise" THEN Outcome(st, b) ELSE Outcome(DictSet(st, key, Val(b)), PyNone)

\* get_object as self._store[key]: KeyError for a missing key
get_object_keyerror(st, key) ==
    IF HasKey(st, key) THEN PyBytes(Lookup(st, key)) ELSE PyRaise("KeyError")

\* InMemoryLongTermStorage.get_object: self._store.get(key)
get_object(st, key) ==
    IF HasKey(st, key) THEN PyBytes(Lookup(st, key)) ELSE PyNone

\* delete_object as del self._store[key]: KeyError for a missing key
delete_object_strict(st, key) ==
    IF HasKey(st, key) THEN Outcome(SelectSeq(st, LAMBDA e : e[1] # key), PyNone)
    ELSE Outcome(st, PyRaise("KeyError"))

\* InMemoryLongTermStorage.delete_object: self._store.pop(key, None)
delete_object(st, key) == Outcome(SelectSeq(st, LAMBDA e : e[1] # key), PyNone)

\* list_prefix with `prefix in k` for k.startswith(prefix)
list_prefix_substring(st, prefix) ==
    LET hits == SelectSeq(st, LAMBDA e : Contains(e[1], prefix))
    IN [i \in 1..Len(hits) |-> hits[i][1]]

\* InMemoryLongTermStorage.list_prefix
list_prefix(st, prefix) ==
    LET hits == SelectSeq(st, LAMBDA e : startswith(e[1], prefix))
    IN [i \in 1..Len(hits) |-> hits[i][1]]

---------------------------------------------------------------------------
(* semantics.py *)

\* serialize_profile(profile): PyBytes, or the exception
serialize_profile(profile) == encode_utf8(json_dumps(profile))

\* json.loads(text) for the outcome text of raw.decode("utf-8")
LoadsDecoded(text) == IF Kind(text) = "raise" THEN text ELSE json_loads(Val(text))

\* parse_profile(raw) for raw a byte sequence
parse_profile(raw) == LoadsDecoded(Utf8Decode(raw))

\* serialize_triples(triples) for triples a sequence of <<s, p, o>>
serialize_triples(triples) ==
    LET lines == [i \in 1..Len(triples) |->
                    json_dumps(PyList(<<PyStr(triples[i][1]), PyStr(triples[i][2]),
                                        PyStr(triples[i][3])>>))]
    IN encode_utf8(join(<<10>>, lines))

\* repr() of a str
StrRepr(s) ==
    LET q == IF (\E i \in 1..Len(s) : s[i] = 39) /\ ~(\E i \in 1..Len(s) : s[i] = 34)
             THEN 34 ELSE 39
        esc(c) == IF c = 92 THEN <<92, 92>>
                  ELSE IF c = q THEN <<92, q>>
                  ELSE IF c = 10 THEN <<92, 110>>
                  ELSE IF c = 13 THEN <<92, 114>>
                  ELSE IF c = 9 THEN <<92, 116>>
                  ELSE IF c < 32 \/ c \in 127..160
                       THEN <<92, 120, HexDigit(c \div 16), HexDigit(c % 16)>>
                  ELSE <<c>>
    IN <<q>> \o Concat([i \in 1..Len(s) |-> esc(s[i])]) \o <<q>>

RECURSIVE PyRepr(_)
PyRepr(v) ==
    CASE Kind(v) = "str" -> StrRepr(Val(v))
      [] Kind(v) = "None" -> <<78, 111, 110, 101>>
      [] Kind(v) = "bool" ->
            IF Val(v) THEN <<84, 114, 117, 101>> ELSE <<70, 97, 108, 115, 101>>
      [] Kind(v) = "int" -> IntRepr(Val(v))
      [] Kind(v) = "float" -> Val(v)
      [] Kind(v) = "list" ->
            <<91>> \o join(<<44, 32>>, [i \in 1..Len(Val(v)) |-> PyRepr(Val(v)[i])]) \o <<93>>
      [] Kind(v) = "dict" ->
            <<123>>
            \o join(<<44, 32>>,
                    [i \in 1..Len(Val(v)) |->
                        StrRepr(Val(v)[i][1]) \o <<58, 32>> \o PyRepr(Val(v)[i][2])])
            \o <<125>>

\* str(x)
str(v) == IF Kind(v) = "str" THEN Val(v) ELSE PyRepr(v)

RECURSIVE ParseLines(_, _)

\* a loop body that takes a line of fewer than three elements for an error
ParseLineStrict(arr, rest, result) ==
    IF Kind(arr) = "raise" THEN arr
    ELSE IF Kind(arr) = "list" /\ Len(Val(arr)) >= 3
    THEN ParseLines(rest, Append(result, <<str(Val(arr)[1]), str(Val(arr)[2]), str(Val(arr)[3])>>))
    ELSE PyRaise("ValueError")

\* the body of the loop of parse_triples for arr = json.loads(line)
ParseLine(arr, rest, result) ==
    IF Kind(arr) = "raise" THEN arr
    ELSE IF Kind(arr) = "list" /\ Len(Val(arr)) >= 3
    THEN ParseLines(rest, Append(result, <<str(Val(arr)[1]), str(Val(arr)[2]), str(Val(arr)[3])>>))
    ELSE ParseLines(rest, result)

\* the loop of parse_triples over the lines still to read
ParseLines(lines, result) ==
    IF lines = <<>> THEN PyList(result)
    ELSE IF strip(Head(lines)) = <<>> THEN ParseLines(Tail(lines), result)
    ELSE ParseLine(json_loads(strip(Head(lines))), Tail(lines), result)

\* parse_triples for the outcome text of raw.decode("utf-8")
ParseText(text) ==
    IF Kind(text) = "raise" THEN text
    ELSE ParseLines(split(strip(Val(text)), 10), <<>>)

\* parse_triples(raw) for raw a byte sequence: PyList of <<s, p, o>>, or the exception
parse_triples(raw) == ParseText(Utf8Decode(raw))

\* backend.put_object(key, body, content_type=...) of a save: body is what the
\* serializer returned or raised (an exception of the serializer leaves before
\* put_object is called)
PutSerialized(st, key, body, content_type) ==
    IF Kind(body) = "raise" THEN Outcome(st, body) ELSE put_object(st, key, body, content_type)

\* a load that answers None when the stored payload does not parse
ProfileOfSwallow(data) ==
    IF data = PyNone THEN PyNone
    ELSE IF Kind(parse_profile(Val(data))) = "raise" THEN PyNone
    ELSE parse_profile(Val(data))

\* load_user_profile after backend.get_object(key) returned data
ProfileOf(data) == IF data = PyNone THEN PyNone ELSE parse_profile(Val(data))

\* load_user_profile(backend, user_id)
load_user_profile(st, user_id) == ProfileOf(get_object(st, profile_key(user_id)))

\* save_user_profile(backend, user_id, profile)
save_user_profile(st, user_id, profile) ==
    PutSerialized(st, profile_key(user_id), serialize_profile(profile), "application/json")

\* a load that takes a missing key for an error
TriplesOfStrict(data) ==
    IF data = PyNone THEN PyRaise("KeyError") ELSE parse_triples(Val(data))

\* load_knowledge_triples after backend.get_object(key) returned data
TriplesOf(data) == IF data = PyNone THEN PyList(<<>>) ELSE parse_triples(Val(data))

\* load_knowledge_triples(backend, user_id)
load_knowledge_triples(st, user_id) == TriplesOf(get_object(st, knowledge_key(user_id)))

\* save_knowledge_triples(backend, user_id, triples)
save_knowledge_triples(st, user_id, triples) ==
    PutSerialized(st, knowledge_key(user_id), serialize_triples(triples), "application/x-ndjson")

\* xs[-k:] for k > 0: the last k of xs
SliceToLast(xs, k) ==
    IF k > 0 THEN SubSeq(xs, Max(Len(xs) - k, 0) + 1, Len(xs))
    ELSE <<>>

\* xs[:k]
SliceTo(xs, k) ==
    IF k >= 0 THEN SubSeq(xs, 1, Min(k, Len(xs)))
    ELSE SubSeq(xs, 1, Max(Len(xs) + k, 0))

\* a match that lowers the query only
MatchesCaseSensitive(q, t) == Contains(t[1] \o <<32>> \o t[2] \o <<32>> \o t[3], q)

\* q in (t[0] + " " + t[1] + " " + t[2]).lower()
\* a match that looks into each field on its own
MatchesPerField(q, t) ==
    Contains(lower(t[1]), q) \/ Contains(lower(t[2]), q) \/ Contains(lower(t[3]), q)

Matches(q, t) == Contains(lower(t[1] \o <<32>> \o t[2] \o <<32>> \o t[3]), q)

\* retrieve_relevant_knowledge after its first line: triples is what
\* load_knowledge_triples returned or raised
Retrieve(triples, query, top_k) ==
    IF Kind(triples) = "raise" THEN triples
    ELSE IF strip(query) = <<>> THEN PyList(SliceTo(Val(triples), top_k))
    ELSE PyList(SliceTo(SelectSeq(Val(triples), LAMBDA t : Matches(lower(strip(query)), t)),
                        top_k))

\* retrieve_relevant_knowledge(backend, user_id, query, top_k)
retrieve_relevant_knowledge(st, user_id, query, top_k) ==
    Retrieve(load_knowledge_triples(st, user_id), query, top_k)

---------------------------------------------------------------------------
(* The calls.  `last` records the most recent call: its name, arguments,    *)
(* result and the store it started from.  `saved` is a history variable: for *)
(* each key, the argument of the most recent put/save to it that no delete  *)
(* has followed, in the order of `store`.                                   *)

Unset == <<"unset", <<>>>>

\* no call of a thread in flight
NoThreads == <<>>

\* no vendor backend instance
NoBackend == [cls |-> "none", client |-> 0, constructed |-> 0]

\* db.py after import: _default_url, _engine, _session_factory, _sync_engine
NoDb == [default_url |-> PyNone, engine |-> PyNone, session_factory |-> PyNone,
         sync_engine |-> PyNone]

Call(op, key, arg, k, ret, before) ==
    [op |-> op, key |-> key, arg |-> arg, k |-> k, ret |-> ret, before |-> before]

NoCall == Call("none", <<>>, PyNone, 0, PyNone, EmptyStore)

\* calls do not overlap: the next one starts when the caller has the result
\* of the one before
Idle == last.op = "none"

\* how many keys the store may hold at once
MaxKeys == 2

\* "k", "k/a", "k/b", "中"
KeyPool == {<<107>>, <<107, 47, 97>>, <<107, 47, 98>>, <<20013>>}

\* "", "k", "k/", "k/a", "/a", "x"
PrefixPool == {<<>>, <<107>>, <<107, 47>>, <<107, 47, 97>>, <<47, 97>>, <<120>>}

\* "" and "中" as text, the UTF-8 bytes of "中", and bytes that are not UTF-8
BodyPool == {PyStr(<<>>), PyStr(<<20013>>), PyBytes(<<228, 184, 173>>), PyBytes(<<255, 0>>)}

ContentTypes == {PyNone, PyStr(<<116>>)}

PutObject ==
    /\ Idle
    /\ \E key \in KeyPool, body \in BodyPool, content_type \in ContentTypes :
        /\ HasKey(store, key) \/ Len(store) < MaxKeys
        /\ LET out == put_object(store, key, body, content_type) IN
            /\ store' = out.store
            /\ saved' = IF out.ret = PyNone THEN DictSet(saved, key, body) ELSE saved
            /\ last' = Call("put_object", key, body, 0, out.ret, store)
        /\ UNCHANGED <<input, payload, output, threads, db, backend>>

GetObject ==
    /\ Idle
    /\ \E key \in KeyPool :
        /\ last' = Call("get_object", key, PyNone, 0, get_object(store, key), store)
        /\ UNCHANGED <<store, saved, input, payload, output, threads, db, backend>>

DeleteObject ==
    /\ Idle
    /\ \E key \in KeyPool :
        /\ LET out == delete_object(store, key) IN
            /\ store' = out.store
            /\ saved' = IF out.ret = PyNone THEN SelectSeq(saved, LAMBDA e : e[1] # key)
                        ELSE saved
            /\ last' = Call("delete_object", key, PyNone, 0, out.ret, store)
        /\ UNCHANGED <<input, payload, output, threads, db, backend>>

ListPrefix ==
    /\ Idle
    /\ \E prefix \in PrefixPool :
        /\ last' = Call("list_prefix", prefix, PyNone, 0, PyList(list_prefix(store, prefix)), store)
        /\ UNCHANGED <<store, saved, input, payload, output, threads, db, backend>>

\* the caller takes the result of the call
Return ==
    /\ ~Idle
    /\ last' = NoCall
    /\ UNCHANGED <<store, saved, input, payload, output, threads, db, backend>>

Init ==
    /\ store = EmptyStore
    /\ saved = <<>>
    /\ last = NoCall
    /\ input = Unset
    /\ payload = Unset
    /\ output = Unset
    /\ threads = NoThreads
    /\ db = NoDb
    /\ backend = NoBackend

Next == PutObject \/ GetObject \/ DeleteObject \/ ListPrefix \/ Return

Spec == Init /\ [][Next]_vars

---------------------------------------------------------------------------
(* The codecs of semantics.py as pure functions: a run starts from one      *)
(* input (a profile map or a list of triples), serializes it, then parses   *)
(* the payload.                                                             *)

\* how many triples a list may hold
MaxTriples == 2

\* how many entries a profile map may hold at its top level
MaxFields == 2

TriplePool ==
    { <<<<29992, 25143>>, <<20351, 29992>>, <<66, 79, 83>>>>,      \* ("用户", "使用", "BOS")
      <<<<97>>, <<66>>, <<99>>>>,                                  \* ("a", "B", "c")
      <<<<>>, <<32>>, <<97, 32, 98>>>>,                            \* ("", " ", "a b")
      <<<<34>>, <<92>>, <<10>>>>,                                  \* ('"', '\\', '\n')
      <<<<9, 32, 120>>, <<1>>, <<128512>>>>,                       \* ("\t x", "\x01", "😀")
      <<<<91, 49, 44, 50, 93>>, <<8232>>, <<32, 233, 13>>>> }      \* ("[1,2]", " ", " é\r")

TripleLists == UNION {[1..n -> TriplePool] : n \in 0..MaxTriples}

\* "t", "" and '键"'
ProfileKeys == {<<116>>, <<>>, <<38190, 34>>}

ProfileValues ==
    { PyStr(<<>>),
      PyStr(<<31616, 27905>>),                                     \* "简洁"
      PyStr(<<34, 92, 10>>),                                       \* '"\\\n'
      PyStr(<<1, 128512, 32>>),                                    \* "\x01😀 "
      PyInt(-12),
      PyInt(0),
      PyBool(TRUE),
      PyNone,
      PyList(<<>>),
      PyList(<<PyStr(<<65, 73>>), PyInt(7)>>),                     \* ["AI", 7]
      PyDict(<<>>),
      PyDict(<< <<<<99>>, PyStr(<<233>>)>> >>) }                   \* {"c": "é"}

\* the profile maps: at most MaxFields entries, no key twice
Profiles ==
    UNION { { PyDict(kvs) : kvs \in { f \in [1..n -> ProfileKeys \X ProfileValues] :
                                        \A i, j \in 1..n : i # j => f[i][1] # f[j][1] } }
            : n \in 0..MaxFields }

InitCodec ==
    /\ store = EmptyStore
    /\ saved = <<>>
    /\ last = NoCall
    /\ input \in Profiles \cup {PyList(t) : t \in TripleLists}
    /\ payload = Unset
    /\ output = Unset
    /\ threads = NoThreads
    /\ db = NoDb
    /\ backend = NoBackend

SerializeProfile ==
    /\ Kind(input) = "dict"
    /\ payload = Unset
    /\ payload' = serialize_profile(input)
    /\ UNCHANGED <<store, saved, last, input, output, threads, db, backend>>

ParseProfile ==
    /\ Kind(input) = "dict"
    /\ Kind(payload) = "bytes"
    /\ output = Unset
    /\ output' = parse_profile(Val(payload))
    /\ UNCHANGED <<store, saved, last, input, payload, threads, db, backend>>

SerializeTriples ==
    /\ Kind(input) = "list"
    /\ payload = Unset
    /\ payload' = serialize_triples(Val(input))
    /\ UNCHANGED <<store, saved, last, input, output, threads, db, backend>>

ParseTriples ==
    /\ Kind(input) = "list"
    /\ Kind(payload) = "bytes"
    /\ output = Unset
    /\ output' = parse_triples(Val(payload))
    /\ UNCHANGED <<store, saved, last, input, payload, threads, db, backend>>

NextCodec == SerializeProfile \/ ParseProfile \/ SerializeTriples \/ ParseTriples

SpecCodec == InitCodec /\ [][NextCodec]_vars

---------------------------------------------------------------------------
(* semantics.py on one InMemoryLongTermStorage: saving and loading the      *)
(* profiles and the triple lists of two users.  Here `saved` holds, per data *)
(* kind and user, the argument of the most recent save.                     *)

\* "u1", "u2"
UserPool == {<<117, 49>>, <<117, 50>>}

SemTriples ==
    { <<<<65, 110, 110>>, <<108, 105, 107, 101, 115>>, <<116, 101, 97>>>>,     \* ("Ann", "likes", "tea")
      <<<<29992, 25143>>, <<76, 73, 75, 69, 83>>, <<84, 101, 97, 32, 99, 117, 112>>>> }
                                                                \* ("用户", "LIKES", "Tea cup")

SemLists == UNION {[1..n -> SemTriples] : n \in 0..MaxTriples}

\* the lists that SpecSem saves: [], [("Ann", "likes", "tea")] and
\* [("用户", "LIKES", "Tea cup"), ("Ann", "likes", "tea")]
SavedLists ==
    { <<>>,
      << <<<<65, 110, 110>>, <<108, 105, 107, 101, 115>>, <<116, 101, 97>>>> >>,
      << <<<<29992, 25143>>, <<76, 73, 75, 69, 83>>, <<84, 101, 97, 32, 99, 117, 112>>>>,
         <<<<65, 110, 110>>, <<108, 105, 107, 101, 115>>, <<116, 101, 97>>>> >> }

\* {} and {"t": {"c": "简洁"}}
SemProfiles ==
    { PyDict(<<>>),
      PyDict(<< <<<<116>>, PyDict(<< <<<<99>>, PyStr(<<31616, 27905>>)>> >>)>> >>) }

SaveUserProfile ==
    /\ Idle
    /\ \E user_id \in UserPool, profile \in SemProfiles :
        /\ HasKey(store, profile_key(user_id)) \/ Len(store) < MaxKeys
        /\ LET out == save_user_profile(store, user_id, profile) IN
            /\ store' = out.store
            /\ saved' = IF out.ret = PyNone THEN DictSet(saved, <<"profile", user_id>>, profile)
                        ELSE saved
            /\ last' = Call("save_user_profile", user_id, profile, 0, out.ret, EmptyStore)
        /\ UNCHANGED <<input, payload, output, threads, db, backend>>

SaveKnowledgeTriples ==
    /\ Idle
    /\ \E user_id \in UserPool, triples \in SavedLists :
        /\ HasKey(store, knowledge_key(user_id)) \/ Len(store) < MaxKeys
        /\ LET out == save_knowledge_triples(store, user_id, triples) IN
            /\ store' = out.store
            /\ saved' = IF out.ret = PyNone
                        THEN DictSet(saved, <<"knowledge", user_id>>, PyList(triples))
                        ELSE saved
            /\ last' = Call("save_knowledge_triples", user_id, PyList(triples), 0, out.ret,
                            EmptyStore)
        /\ UNCHANGED <<input, payload, output, threads, db, backend>>

LoadUserProfile ==
    /\ Idle
    /\ \E user_id \in UserPool :
        /\ last' = Call("load_user_profile", user_id, PyNone, 0,
                        load_user_profile(store, user_id), store)
        /\ UNCHANGED <<store, saved, input, payload, output, threads, db, backend>>

LoadKnowledgeTriples ==
    /\ Idle
    /\ \E user_id \in UserPool :
        /\ last' = Call("load_knowledge_triples", user_id, PyNone, 0,
                        load_knowledge_triples(store, user_id), store)
        /\ UNCHANGED <<store, saved, input, payload, output, threads, db, backend>>

NextSem ==
    SaveUserProfile \/ SaveKnowledgeTriples \/ LoadUserProfile \/ LoadKnowledgeTriples \/ Return

SpecSem == Init /\ [][NextSem]_vars

---------------------------------------------------------------------------
(* retrieve_relevant_knowledge over the triple lists of two users *)

\* "", "  ", "tea", "\tCUP ", "n l", "zz"
QueryPool ==
    { <<>>, <<32, 32>>, <<116, 101, 97>>, <<9, 67, 85, 80, 32>>, <<110, 32, 108>>, <<122, 122>> }

\* top_k: int = 5
DefaultTopK == 5

TopKPool == (-1..MaxTriples) \cup {DefaultTopK}

SaveTriples ==
    /\ Idle
    /\ \E user_id \in UserPool, triples \in SemLists :
        LET out == save_knowledge_triples(store, user_id, triples) IN
            /\ store' = out.store
            /\ saved' = IF out.ret = PyNone
                        THEN DictSet(saved, <<"knowledge", user_id>>, PyList(triples))
                        ELSE saved
            /\ last' = Call("save_knowledge_triples", user_id, PyList(triples), 0, out.ret,
                            EmptyStore)
            /\ UNCHANGED <<input, payload, output, threads, db, backend>>

RetrieveRelevantKnowledge ==
    /\ Idle
    /\ \E user_id \in UserPool, query \in QueryPool, top_k \in TopKPool :
        /\ last' = Call("retrieve_relevant_knowledge", user_id, PyStr(query), top_k,
                        retrieve_relevant_knowledge(store, user_id, query, top_k), store)
        /\ UNCHANGED <<store, saved, input, payload, output, threads, db, backend>>

NextRetrieve ==
    \/ SaveTriples \/ LoadUserProfile \/ LoadKnowledgeTriples \/ RetrieveRelevantKnowledge
    \/ Return

SpecRetrieve == Init /\ [][NextRetrieve]_vars

---------------------------------------------------------------------------
(* parse_triples on payloads that no serialize_triples wrote: a run starts   *)
(* from a list of lines, each with the triples it stands for, joined by      *)
(* "\n" into the payload.                                                    *)

\* how many lines a payload may hold
MaxLines == 3

\* each line with what it contributes to the result
LinePool ==
    { \* ["a","b","c"]
      << <<91, 34, 97, 34, 44, 34, 98, 34, 44, 34, 99, 34, 93>>,
         << <<<<97>>, <<98>>, <<99>>>> >> >>,
      \* '  ["x", "é", "z", "w"]\t': a fourth element, whitespace around
      << <<32, 32, 91, 34, 120, 34, 44, 32, 34, 233, 34, 44, 32, 34, 122, 34, 44, 32,
           34, 119, 34, 93, 9>>,
         << <<<<120>>, <<233>>, <<122>>>> >> >>,
      \* [1, true, null]: str() gives "1", "True", "None"
      << <<91, 49, 44, 32, 116, 114, 117, 101, 44, 32, 110, 117, 108, 108, 93>>,
         << <<<<49>>, <<84, 114, 117, 101>>, <<78, 111, 110, 101>>>> >> >>,
      \* [[1], {"k": "v"}, -2.5, 0]: str() gives "[1]", "{'k': 'v'}", "-2.5"
      << <<91, 91, 49, 93, 44, 32, 123, 34, 107, 34, 58, 32, 34, 118, 34, 125, 44, 32,
           45, 50, 46, 53, 44, 32, 48, 93>>,
         << <<<<91, 49, 93>>,
              <<123, 39, 107, 39, 58, 32, 39, 118, 39, 125>>,
              <<45, 50, 46, 53>>>> >> >>,
      \* ["a","b"]: two elements
      << <<91, 34, 97, 34, 44, 34, 98, 34, 93>>, <<>> >>,
      \* {"a": 1}: not an array
      << <<123, 34, 97, 34, 58, 32, 49, 125>>, <<>> >>,
      \* the empty line
      << <<>>, <<>> >>,
      \* ' \t\r': a line of whitespace
      << <<32, 9, 13>>, <<>> >> }

LineLists == UNION {[1..n -> LinePool] : n \in 0..MaxLines}

\* the payload of the lines: their texts joined by "\n", as UTF-8
PayloadOf(lines) == encode_utf8(join(<<10>>, [i \in 1..Len(lines) |-> lines[i][1]]))

InitLines ==
    /\ store = EmptyStore
    /\ saved = <<>>
    /\ last = NoCall
    /\ input \in {<<"lines", ls>> : ls \in LineLists}
    /\ payload = PayloadOf(Val(input))
    /\ output = Unset
    /\ threads = NoThreads
    /\ db = NoDb
    /\ backend = NoBackend

ParsePayload ==
    /\ Kind(input) = "lines"
    /\ output = Unset
    /\ output' = parse_triples(Val(payload))
    /\ UNCHANGED <<store, saved, last, input, payload, threads, db, backend>>

NextLines == ParsePayload

SpecLines == InitLines /\ [][NextLines]_vars

---------------------------------------------------------------------------
(* Payloads that no serializer wrote, parsed directly and loaded after a     *)
(* put_object left them under a user's key.  Each payload carries whether    *)
(* it is malformed as a profile (not UTF-8, or not one JSON text) and as     *)
(* triples (not UTF-8, or a non-blank line that is not a JSON text).         *)

RawPool ==
    { \* {"t": 1} x
      << <<123, 34, 116, 34, 58, 32, 49, 125, 32, 120>>, TRUE, TRUE >>,
      \* the empty payload
      << <<>>, TRUE, FALSE >>,
      \* the byte FF
      << <<255>>, TRUE, TRUE >>,
      \* {'a': 1}
      << <<123, 39, 97, 39, 58, 32, 49, 125>>, TRUE, TRUE >>,
      \* {"a": 1
      << <<123, 34, 97, 34, 58, 32, 49>>, TRUE, TRUE >>,
      \* ["a","b","c"]\n["d","e"\n["x","y","z"]
      << <<91, 34, 97, 34, 44, 34, 98, 34, 44, 34, 99, 34, 93, 10, 91, 34, 100, 34, 44,
           34, 101, 34, 10, 91, 34, 120, 34, 44, 34, 121, 34, 44, 34, 122, 34, 93>>,
         TRUE, TRUE >>,
      \* ["a","b","c"]\nnul
      << <<91, 34, 97, 34, 44, 34, 98, 34, 44, 34, 99, 34, 93, 10, 110, 117, 108>>,
         TRUE, TRUE >>,
      \* {"t": {"c": "x"}}
      << <<123, 34, 116, 34, 58, 32, 123, 34, 99, 34, 58, 32, 34, 120, 34, 125, 125>>,
         FALSE, FALSE >>,
      \* ["a","b","c"]\n\n["d","e","f"]
      << <<91, 34, 97, 34, 44, 34, 98, 34, 44, 34, 99, 34, 93, 10, 10, 91, 34, 100, 34,
           44, 34, 101, 34, 44, 34, 102, 34, 93>>,
         TRUE, FALSE >>,
      \* "a\x01": a control character inside a string
      << <<34, 97, 1, 34>>, TRUE, TRUE >> }

InitMalformed ==
    /\ store = EmptyStore
    /\ saved = <<>>
    /\ last = NoCall
    /\ input \in {<<"raw", r>> : r \in RawPool}
    /\ payload = PyBytes(Val(input)[1])
    /\ output = Unset
    /\ threads = NoThreads
    /\ db = NoDb
    /\ backend = NoBackend

ParseProfileRaw ==
    /\ Idle
    /\ last' = Call("parse_profile", <<>>, payload, 0, parse_profile(Val(payload)), store)
    /\ UNCHANGED <<store, saved, input, payload, output, threads, db, backend>>

ParseTriplesRaw ==
    /\ Idle
    /\ last' = Call("parse_triples", <<>>, payload, 0, parse_triples(Val(payload)), store)
    /\ UNCHANGED <<store, saved, input, payload, output, threads, db, backend>>

\* backend.put_object(key, payload) under the profile or the knowledge key
\* of a user
PutRaw ==
    /\ Idle
    /\ \E key \in {profile_key(u) : u \in UserPool} \cup {knowledge_key(u) : u \in UserPool} :
        /\ HasKey(store, key) \/ Len(store) < MaxKeys
        /\ LET out == put_object(store, key, payload, PyNone) IN
            /\ store' = out.store
            /\ last' = Call("put_object", key, payload, 0, out.ret, EmptyStore)
        /\ UNCHANGED <<saved, input, payload, output, threads, db, backend>>

NextMalformed ==
    \/ ParseProfileRaw \/ ParseTriplesRaw \/ PutRaw
    \/ LoadUserProfile \/ LoadKnowledgeTriples \/ RetrieveRelevantKnowledge
    \/ Return

SpecMalformed == InitMalformed /\ [][NextMalformed]_vars

---------------------------------------------------------------------------
(* The key scheme: profile_key and knowledge_key on user ids of every shape *)

\* how long a user id may be
MaxIdLen == 3

\* "u", "/", "." and "用"
IdChars == {117, 47, 46, 29992}

UserIds == UNION {[1..n -> IdChars] : n \in 0..MaxIdLen}

ProfileKey ==
    /\ Idle
    /\ \E user_id \in UserIds :
        /\ last' = Call("profile_key", user_id, PyNone, 0, PyStr(profile_key(user_id)), store)
        /\ UNCHANGED <<store, saved, input, payload, output, threads, db, backend>>

KnowledgeKey ==
    /\ Idle
    /\ \E user_id \in UserIds :
        /\ last' = Call("knowledge_key", user_id, PyNone, 0, PyStr(knowledge_key(user_id)),
                        store)
        /\ UNCHANGED <<store, saved, input, payload, output, threads, db, backend>>

NextKeys == ProfileKey \/ KnowledgeKey \/ Return

SpecKeys == Init /\ [][NextKeys]_vars

---------------------------------------------------------------------------
(* long_term_storage.py: create_long_term_backend_from_config.  A backend   *)
(* object is <<class, fields>>: an OssStorage with its bucket, access key    *)
(* id, access key secret and endpoint, or an InMemoryLongTermStorage with    *)
(* its store.                                                               *)

\* "oss_endpoint", "oss_bucket", "oss_access_key_id", "oss_access_key_secret"
OssEndpointField == <<111, 115, 115, 95, 101, 110, 100, 112, 111, 105, 110, 116>>
OssBucketField == <<111, 115, 115, 95, 98, 117, 99, 107, 101, 116>>
OssKeyIdField == <<111, 115, 115, 95, 97, 99, 99, 101, 115, 115, 95, 107, 101, 121, 95, 105, 100>>
OssKeySecretField == <<111, 115, 115, 95, 97, 99, 99, 101, 115, 115, 95, 107, 101, 121, 95, 115, 101, 99, 114, 101, 116>>

\* config.get(name): None when the key is absent
config_get(config, name) ==
    IF HasKey(Val(config), name) THEN Lookup(Val(config), name) ELSE PyNone

\* v or "" for v a str or None
OrEmpty(v) == IF v = PyNone \/ v = PyStr(<<>>) THEN <<>> ELSE Val(v)

\* str.rstrip("/")
RECURSIVE rstrip_slash(_)
rstrip_slash(s) ==
    IF s # <<>> /\ s[Len(s)] = 47 THEN rstrip_slash(SubSeq(s, 1, Len(s) - 1)) ELSE s

\* the scheme test and prefix of _normalize_oss_endpoint for ep already
\* stripped
WithScheme(ep) ==
    IF ~startswith(ep, <<104, 116, 116, 112, 58, 47, 47>>) /\ ~startswith(ep, <<104, 116, 116, 112, 115, 58, 47, 47>>)
    THEN <<104, 116, 116, 112, 115, 58, 47, 47>> \o ep
    ELSE ep

\* _normalize_oss_endpoint(endpoint) for endpoint a str: the str, or None
_normalize_oss_endpoint(endpoint) ==
    IF endpoint = PyNone \/ Val(endpoint) = <<>> \/ strip(Val(endpoint)) = <<>> THEN PyNone
    ELSE PyStr(WithScheme(rstrip_slash(strip(Val(endpoint)))))

\* ep = config.get("oss_endpoint") or ""; ep = _normalize_oss_endpoint(ep) if ep else None
EndpointOf(config) ==
    IF OrEmpty(config_get(config, OssEndpointField)) = <<>> THEN PyNone
    ELSE _normalize_oss_endpoint(PyStr(OrEmpty(config_get(config, OssEndpointField))))

\* a field read without trimming
FieldOfUntrimmed(config, name) == OrEmpty(config_get(config, name))

\* (config.get(name) or "").strip()
FieldOf(config, name) == strip(OrEmpty(config_get(config, name)))

\* OssStorage.__init__
OssStorage(bucket, access_key_id, access_key_secret, endpoint) ==
    <<"OssStorage", <<bucket, access_key_id, access_key_secret, rstrip_slash(endpoint)>>>>

\* InMemoryLongTermStorage()
InMemoryLongTermStorage == <<"InMemoryLongTermStorage", EmptyStore>>

\* the choice of create_long_term_backend_from_config
BackendFor(ep, bucket, key_id, key_secret) ==
    IF ep # PyNone /\ Val(ep) # <<>> /\ bucket # <<>> /\ key_id # <<>> /\ key_secret # <<>>
    THEN OssStorage(bucket, key_id, key_secret, Val(ep))
    ELSE InMemoryLongTermStorage

\* create_long_term_backend_from_config(config)
create_long_term_backend_from_config(config) ==
    BackendFor(EndpointOf(config), FieldOf(config, OssBucketField),
               FieldOf(config, OssKeyIdField), FieldOf(config, OssKeySecretField))

\* what a config may hold for oss_endpoint: nothing, None, "", " ", "h",
\* " http://h/ ", "/" and "https://h"
EndpointValues ==
    { Unset, PyNone, PyStr(<<>>), PyStr(<<32>>), PyStr(<<104>>),
      PyStr(<<32, 104, 116, 116, 112, 58, 47, 47, 104, 47, 32>>), PyStr(<<47>>), PyStr(<<104, 116, 116, 112, 115, 58, 47, 47, 104>>) }

\* what a config may hold for the other three: nothing, None, "", " \t",
\* "b" and " b "
FieldValues ==
    { Unset, PyNone, PyStr(<<>>), PyStr(<<32, 9>>), PyStr(<<98>>), PyStr(<<32, 98, 32>>) }

\* the dict of the fields that hold something
ConfigOf(ep, bucket, key_id, key_secret) ==
    PyDict(SelectSeq(<< <<OssBucketField, bucket>>, <<OssEndpointField, ep>>,
                        <<OssKeySecretField, key_secret>>, <<OssKeyIdField, key_id>> >>,
                     LAMBDA e : e[2] # Unset))

Configs ==
    { ConfigOf(ep, b, k, sec) :
        ep \in EndpointValues, b \in FieldValues, k \in FieldValues, sec \in FieldValues }

CreateBackend ==
    /\ Idle
    /\ \E config \in Configs :
        /\ last' = Call("create_long_term_backend_from_config", <<>>, config, 0,
                        create_long_term_backend_from_config(config), store)
        /\ UNCHANGED <<store, saved, input, payload, output, threads, db, backend>>

\* the endpoint arguments: those of the configs, and "h//", " / ", "http://h/"
NormalizeArgs ==
    (EndpointValues \ {Unset})
    \cup {PyStr(<<104, 47, 47>>), PyStr(<<32, 47, 32>>),
          PyStr(<<104, 116, 116, 112, 58, 47, 47, 104, 47>>)}

NormalizeOssEndpoint ==
    /\ Idle
    /\ \E endpoint \in NormalizeArgs :
        /\ last' = Call("_normalize_oss_endpoint", <<>>, endpoint, 0,
                        _normalize_oss_endpoint(endpoint), store)
        /\ UNCHANGED <<store, saved, input, payload, output, threads, db, backend>>

NextFactory == CreateBackend \/ NormalizeOssEndpoint \/ Return

SpecFactory == Init /\ [][NextFactory]_vars

---------------------------------------------------------------------------
(* long_term_storage.py: get_object of the vendor adapters.  The vendor's    *)
(* SDK is outside the program: its call returns a body or raises, and the    *)
(* outcome is PyBytes(body) or PyRaise(<<class, attribute>>), the attribute  *)
(* being the error code of a ClientError, the status_code of a BceError and  *)
(* None for the others.                                                     *)

\* "NoSuchKey", "NoSuchBucket", "AccessDenied"
NoSuchKeyCode == PyStr(<<78, 111, 83, 117, 99, 104, 75, 101, 121>>)
NoSuchBucketCode == PyStr(<<78, 111, 83, 117, 99, 104, 66, 117, 99, 107, 101, 116>>)
AccessDeniedCode == PyStr(<<65, 99, 99, 101, 115, 115, 68, 101, 110, 105, 101, 100>>)

\* a get_object that takes every BceError for a missing key
BosStorage_get_object_any(outcome) ==
    IF Kind(outcome) = "raise" /\ Val(outcome)[1] = "BceError" THEN PyNone ELSE outcome

\* BosStorage.get_object for the outcome of client.get_object_as_bytes (or of
\* client.get_object and resp.body.read)
BosStorage_get_object(outcome) ==
    IF Kind(outcome) = "raise" /\ Val(outcome)[1] = "BceError"
       /\ Val(outcome)[2] = PyInt(404)
    THEN PyNone
    ELSE outcome

\* S3CompatibleStorage.get_object for the outcome of client.get_object and
\* resp["Body"].read
S3CompatibleStorage_get_object(outcome) ==
    IF Kind(outcome) = "raise" /\ Val(outcome)[1] = "ClientError"
       /\ Val(outcome)[2] = NoSuchKeyCode
    THEN PyNone
    ELSE outcome

\* OssStorage.get_object for the outcome of bucket.get_object and result.read
OssStorage_get_object(outcome) ==
    IF Kind(outcome) = "raise" /\ Val(outcome)[1] = "NoSuchKey" THEN PyNone ELSE outcome

\* the bodies a vendor returns: b"", b"{}" and the byte FF
VendorBodies == {PyBytes(<<>>), PyBytes(<<123, 125>>), PyBytes(<<255>>)}

\* botocore: a ClientError with its code (None: a response without one), or
\* an error that is no ClientError
S3Outcomes ==
    VendorBodies \cup
    { PyRaise(<<"ClientError", NoSuchKeyCode>>), PyRaise(<<"ClientError", NoSuchBucketCode>>),
      PyRaise(<<"ClientError", AccessDeniedCode>>), PyRaise(<<"ClientError", PyNone>>),
      PyRaise(<<"EndpointConnectionError", PyNone>>) }

\* baidubce: a BceError with its status_code (None: it has none), or an error
\* that is no BceError
BosOutcomes ==
    VendorBodies \cup
    { PyRaise(<<"BceError", PyInt(404)>>), PyRaise(<<"BceError", PyInt(403)>>),
      PyRaise(<<"BceError", PyInt(500)>>), PyRaise(<<"BceError", PyNone>>),
      PyRaise(<<"ConnectionError", PyNone>>) }

\* oss2.exceptions
OssOutcomes ==
    VendorBodies \cup
    { PyRaise(<<"NoSuchKey", PyNone>>), PyRaise(<<"NoSuchBucket", PyNone>>),
      PyRaise(<<"AccessDenied", PyNone>>), PyRaise(<<"RequestError", PyNone>>) }

S3GetObject ==
    /\ Idle
    /\ \E key \in KeyPool, outcome \in S3Outcomes :
        /\ last' = Call("S3CompatibleStorage.get_object", key, outcome, 0,
                        S3CompatibleStorage_get_object(outcome), store)
        /\ UNCHANGED <<store, saved, input, payload, output, threads, db, backend>>

\* k is 1 when the client has get_object_as_bytes, 0 when it has not
BosGetObject ==
    /\ Idle
    /\ \E key \in KeyPool, outcome \in BosOutcomes, as_bytes \in {0, 1} :
        /\ last' = Call("BosStorage.get_object", key, outcome, as_bytes,
                        BosStorage_get_object(outcome), store)
        /\ UNCHANGED <<store, saved, input, payload, output, threads, db, backend>>

OssGetObject ==
    /\ Idle
    /\ \E key \in KeyPool, outcome \in OssOutcomes :
        /\ last' = Call("OssStorage.get_object", key, outcome, 0,
                        OssStorage_get_object(outcome), store)
        /\ UNCHANGED <<store, saved, input, payload, output, threads, db, backend>>

NextVendor == S3GetObject \/ BosGetObject \/ OssGetObject \/ Return

SpecVendor == Init /\ [][NextVendor]_vars

---------------------------------------------------------------------------
(* Writers in threads on one InMemoryLongTermStorage.  A thread runs one     *)
(* call: a save serializes its argument and calls put_object; put_object     *)
(* evaluates the right-hand side of its assignment (the encoded body), and   *)
(* then assigns self._store[key], one dict item assignment.  Threads switch  *)
(* between these steps.  Here `saved` holds, per key, the thread whose       *)
(* assignment ran last.                                                      *)

\* how many writers run at once
MaxWriters == 2

\* the key the writers share, profiles/u1.json, and another, knowledge/u1.jsonl
SharedKey == profile_key(<<117, 49>>)

Thread(pc, op, key, arg, body, data, ret) ==
    [pc |-> pc, op |-> op, key |-> key, arg |-> arg, body |-> body, data |-> data, ret |-> ret]

\* the calls a writer may make
WriterCalls ==
    { Thread("put", "put_object", SharedKey, b, b, Unset, Unset)
        : b \in {PyStr(<<20013>>), PyBytes(<<255, 0>>)} }
    \cup { Thread("called", "save_user_profile", SharedKey, p, Unset, Unset, Unset)
            : p \in SemProfiles }
    \cup { Thread("called", "save_knowledge_triples", knowledge_key(<<117, 49>>), PyList(t),
                  Unset, Unset, Unset)
            : t \in SavedLists \ {<<>>} }

\* a thread calls put_object or a save
StartWriter ==
    /\ Len(threads) < MaxWriters
    /\ \E call \in WriterCalls : threads' = Append(threads, call)
    /\ UNCHANGED <<store, saved, last, input, payload, output, db, backend>>

\* save_user_profile / save_knowledge_triples up to its call of put_object
SerializeStep ==
    \E w \in 1..Len(threads) :
        /\ threads[w].pc = "called"
        /\ threads' = [threads EXCEPT ![w].pc = "put",
                          ![w].body = IF threads[w].op = "save_user_profile"
                                      THEN serialize_profile(threads[w].arg)
                                      ELSE serialize_triples(Val(threads[w].arg))]
        /\ UNCHANGED <<store, saved, last, input, payload, output, db, backend>>

\* put_object: body.encode("utf-8") if isinstance(body, str) else body
EncodeStep ==
    \E w \in 1..Len(threads) :
        /\ threads[w].pc = "put"
        /\ threads' = [threads EXCEPT ![w].pc = "store", ![w].data = EncodeBody(threads[w].body)]
        /\ UNCHANGED <<store, saved, last, input, payload, output, db, backend>>

\* put_object: self._store[key] = ..., and the return
StoreStep ==
    \E w \in 1..Len(threads) :
        /\ threads[w].pc = "store"
        /\ LET out == put_object(store, threads[w].key, threads[w].data, PyNone) IN
            /\ store' = out.store
            /\ saved' = DictSet(saved, threads[w].key, w)
            /\ threads' = [threads EXCEPT ![w].pc = "done", ![w].ret = out.ret]
        /\ UNCHANGED <<last, input, payload, output, db, backend>>

NextWriters == StartWriter \/ SerializeStep \/ EncodeStep \/ StoreStep

SpecWriters == Init /\ [][NextWriters]_vars

---------------------------------------------------------------------------
(* db.py: the default URL, the lazily created engines and session factory,   *)
(* and the two session scopes.  An engine is the pair of its class and the   *)
(* URL it was created with; a session's history is the list of the calls     *)
(* made on it.  Here `db` holds the module globals, `last.before` the        *)
(* globals before the call, `last.key` the database_url argument and         *)
(* `output` the calls on the session of the last scope.                      *)

\* "postgresql+asyncpg"
AsyncDriver == <<112, 111, 115, 116, 103, 114, 101, 115, 113, 108, 43, 97, 115, 121, 110, 99, 112, 103>>

\* "postgresql"
SyncDriver == <<112, 111, 115, 116, 103, 114, 101, 115, 113, 108>>

\* "postgresql+asyncpg://a" and "postgresql+asyncpg://b"
UrlA == PyStr(AsyncDriver \o <<58, 47, 47, 97>>)

UrlB == PyStr(AsyncDriver \o <<58, 47, 47, 98>>)

\* the URLs given to set_database_url
UrlPool == {UrlA, UrlB, PyStr(<<>>)}

\* the database_url arguments: None (the default), "", or a URL
UrlArgs == {PyNone} \cup UrlPool

\* Python truth value of None or a str
Truthy(v) == v # PyNone /\ Val(v) # <<>>

\* a or b
PyOr(a, b) == IF Truthy(a) THEN a ELSE b

\* s.startswith(prefix)
IsPrefixOf(prefix, s) == Len(prefix) <= Len(s) /\ prefix = SubSeq(s, 1, Len(prefix))

\* str.replace(old, new)
RECURSIVE str_replace(_, _, _)
str_replace(s, old, new) ==
    IF s = <<>> THEN <<>>
    ELSE IF IsPrefixOf(old, s)
         THEN new \o str_replace(SubSeq(s, Len(old) + 1, Len(s)), old, new)
         ELSE <<Head(s)>> \o str_replace(Tail(s), old, new)

\* create_async_engine: an empty URL cannot be parsed
create_async_engine(url) ==
    IF Val(url) = <<>> THEN PyRaise("ArgumentError") ELSE <<"AsyncEngine", Val(url)>>

\* create_engine
create_sync_engine(url) ==
    IF Val(url) = <<>> THEN PyRaise("ArgumentError") ELSE <<"Engine", Val(url)>>

\* async_sessionmaker(engine, ...)
async_sessionmaker(engine) == <<"async_sessionmaker", engine>>

DbOutcome(d, ret) == [db |-> d, ret |-> ret]

\* get_engine that returns None when no URL is known
get_engine_lenient(d, database_url) ==
    LET url == PyOr(database_url, d.default_url) IN
    IF url = PyNone THEN DbOutcome(d, PyNone)
    ELSE IF d.engine = PyNone
         THEN IF Kind(create_async_engine(url)) = "raise"
              THEN DbOutcome(d, create_async_engine(url))
              ELSE DbOutcome([d EXCEPT !.engine = create_async_engine(url)],
                             create_async_engine(url))
         ELSE DbOutcome(d, d.engine)

set_database_url(d, database_url) ==
    DbOutcome([d EXCEPT !.default_url = database_url], PyNone)

get_engine(d, database_url) ==
    LET url == PyOr(database_url, d.default_url) IN
    IF url = PyNone THEN DbOutcome(d, PyRaise("RuntimeError"))
    ELSE IF d.engine = PyNone
         THEN IF Kind(create_async_engine(url)) = "raise"
              THEN DbOutcome(d, create_async_engine(url))
              ELSE DbOutcome([d EXCEPT !.engine = create_async_engine(url)],
                             create_async_engine(url))
         ELSE DbOutcome(d, d.engine)

\* get_sync_engine that makes an engine for the URL of each call
get_sync_engine_fresh(d, database_url) ==
    LET url == PyOr(database_url, d.default_url) IN
    IF url = PyNone THEN DbOutcome(d, PyRaise("RuntimeError"))
    ELSE LET sync_url == PyStr(str_replace(Val(url), AsyncDriver, SyncDriver)) IN
         IF Kind(create_sync_engine(sync_url)) = "raise"
         THEN DbOutcome(d, create_sync_engine(sync_url))
         ELSE DbOutcome([d EXCEPT !.sync_engine = create_sync_engine(sync_url)],
                        create_sync_engine(sync_url))

get_sync_engine(d, database_url) ==
    LET url == PyOr(database_url, d.default_url) IN
    IF url = PyNone THEN DbOutcome(d, PyRaise("RuntimeError"))
    ELSE LET sync_url == PyStr(str_replace(Val(url), AsyncDriver, SyncDriver)) IN
         IF d.sync_engine = PyNone
         THEN IF Kind(create_sync_engine(sync_url)) = "raise"
              THEN DbOutcome(d, create_sync_engine(sync_url))
              ELSE DbOutcome([d EXCEPT !.sync_engine = create_sync_engine(sync_url)],
                             create_sync_engine(sync_url))
         ELSE DbOutcome(d, d.sync_engine)

get_session_factory(d, database_url) ==
    LET url == PyOr(database_url, d.default_url) IN
    IF url = PyNone THEN DbOutcome(d, PyRaise("RuntimeError"))
    ELSE IF d.session_factory = PyNone
         THEN LET e == get_engine(d, url) IN
              IF Kind(e.ret) = "raise" THEN e
              ELSE DbOutcome([e.db EXCEPT !.session_factory = async_sessionmaker(e.ret)],
                             async_sessionmaker(e.ret))
         ELSE DbOutcome(d, d.session_factory)

\* what the body of a with block does, and what commit, rollback and close do
BodyOutcomes == {"returns", "Exception", "BaseException"}

CallOutcomes == {"ok", "raises"}

Scope(calls, ret) == [calls |-> calls, ret |-> ret]

\* except Exception: rollback(); raise
ExceptException(calls, exc, rollback) ==
    Scope(Append(calls, "rollback"),
          IF rollback = "ok" THEN PyRaise(exc) ELSE PyRaise("RollbackError"))

\* try: yield session; commit()   except Exception: rollback(); raise
TryBody(body, commit, rollback) ==
    CASE body = "returns" ->
            IF commit = "ok" THEN Scope(<<"commit">>, PyNone)
            ELSE ExceptException(<<"commit">>, "CommitError", rollback)
      [] body = "Exception" -> ExceptException(<<>>, "BodyError", rollback)
      [] OTHER -> Scope(<<>>, PyRaise("CancelledError"))

\* leaving `async with factory() as session`
AsyncWithExit(r, close) ==
    Scope(Append(r.calls, "__aexit__"), IF close = "ok" THEN r.ret ELSE PyRaise("CloseError"))

\* finally: session.close()
FinallyClose(r, close) ==
    Scope(Append(r.calls, "close"), IF close = "ok" THEN r.ret ELSE PyRaise("CloseError"))

\* async with session_scope(database_url): body
session_scope(d, database_url, body, commit, rollback, close) ==
    LET factory == get_session_factory(d, database_url) IN
    IF Kind(factory.ret) = "raise" THEN [db |-> factory.db, entered |-> 0, calls |-> <<>>,
                                         ret |-> factory.ret]
    ELSE LET r == AsyncWithExit(TryBody(body, commit, rollback), close) IN
         [db |-> factory.db, entered |-> 1, calls |-> r.calls, ret |-> r.ret]

\* with sync_session_scope(database_url): body
sync_session_scope(d, database_url, body, commit, rollback, close) ==
    LET engine == get_sync_engine(d, database_url) IN
    IF Kind(engine.ret) = "raise" THEN [db |-> engine.db, entered |-> 0, calls |-> <<>>,
                                        ret |-> engine.ret]
    ELSE LET r == FinallyClose(TryBody(body, commit, rollback), close) IN
         [db |-> engine.db, entered |-> 1, calls |-> r.calls, ret |-> r.ret]

\* init_db(None, database_url): get_engine, then the two engine.begin() blocks
init_db(d, database_url, begin) ==
    LET e == get_engine(d, database_url) IN
    IF Kind(e.ret) = "raise" THEN e
    ELSE DbOutcome(e.db, IF begin = "ok" THEN PyNone ELSE PyRaise("DBAPIError"))

DbCall(op, database_url, out) ==
    /\ Idle
    /\ db' = out.db
    /\ last' = Call(op, database_url, PyNone, 0, out.ret, db)
    /\ UNCHANGED <<store, saved, input, payload, output, threads, backend>>

SetDatabaseUrl ==
    \E u \in UrlPool : DbCall("set_database_url", u, set_database_url(db, u))

GetEngine ==
    \E u \in UrlArgs : DbCall("get_engine", u, get_engine(db, u))

GetSyncEngine ==
    \E u \in UrlArgs : DbCall("get_sync_engine", u, get_sync_engine(db, u))

GetSessionFactory ==
    \E u \in UrlArgs : DbCall("get_session_factory", u, get_session_factory(db, u))

InitDb ==
    \E u \in UrlArgs, begin \in CallOutcomes : DbCall("init_db", u, init_db(db, u, begin))

ScopeCall(op, database_url, outcomes, out) ==
    /\ Idle
    /\ db' = out.db
    /\ last' = Call(op, database_url, outcomes, out.entered, out.ret, db)
    /\ output' = <<"calls", out.calls>>
    /\ UNCHANGED <<store, saved, input, payload, threads, backend>>

SessionScope ==
    \E u \in UrlArgs, body \in BodyOutcomes, commit, rollback, close \in CallOutcomes :
        ScopeCall("session_scope", u, <<body, commit, rollback, close>>,
                  session_scope(db, u, body, commit, rollback, close))

SyncSessionScope ==
    \E u \in UrlArgs, body \in BodyOutcomes, commit, rollback, close \in CallOutcomes :
        ScopeCall("sync_session_scope", u, <<body, commit, rollback, close>>,
                  sync_session_scope(db, u, body, commit, rollback, close))

NextDb ==
    \/ SetDatabaseUrl
    \/ GetEngine
    \/ GetSyncEngine
    \/ GetSessionFactory
    \/ InitDb
    \/ SessionScope
    \/ SyncSessionScope
    \/ Return

SpecDb == Init /\ [][NextDb]_vars

---------------------------------------------------------------------------
(* long_term_storage.py: the lazily built SDK client of a vendor adapter.    *)
(* `backend` is one instance: its class, its _client (_bucket for            *)
(* OssStorage; 0 is None, n the n-th client built) and how many clients      *)
(* were built.  Each thread runs one operation, which starts with            *)
(* _get_client(): the test of self._client, the construction of the client,  *)
(* the assignment to self._client and the read for the return are steps      *)
(* between which threads switch; no lock is taken.                           *)

\* how many threads call the instance at once
MaxCallers == 2

VendorClasses == {"S3CompatibleStorage", "BosStorage", "OssStorage"}

VendorOps == {"put_object", "get_object", "delete_object", "list_prefix"}

Caller(pc, op, client) == [pc |-> pc, op |-> op, client |-> client]

\* a fresh instance: __init__ sets self._client = None
InitClient ==
    /\ store = EmptyStore
    /\ saved = <<>>
    /\ last = NoCall
    /\ input = Unset
    /\ payload = Unset
    /\ output = Unset
    /\ threads = NoThreads
    /\ db = NoDb
    /\ backend \in {[cls |-> c, client |-> 0, constructed |-> 0] : c \in VendorClasses}

\* a thread calls an operation, which calls self._get_client()
StartCall ==
    /\ Len(threads) < MaxCallers
    /\ \E op \in VendorOps : threads' = Append(threads, Caller("check", op, 0))
    /\ UNCHANGED <<store, saved, last, input, payload, output, db, backend>>

\* if self._client is None:
CheckClient ==
    \E w \in 1..Len(threads) :
        /\ threads[w].pc = "check"
        /\ threads' = [threads EXCEPT ![w].pc = IF backend.client = 0 THEN "construct"
                                                 ELSE "return"]
        /\ UNCHANGED <<store, saved, last, input, payload, output, db, backend>>

\* boto3.client(**kwargs) / BosClient(config) / oss2.Bucket(...)
ConstructClient ==
    \E w \in 1..Len(threads) :
        /\ threads[w].pc = "construct"
        /\ backend' = [backend EXCEPT !.constructed = backend.constructed + 1]
        /\ threads' = [threads EXCEPT ![w].pc = "assign",
                                      ![w].client = backend.constructed + 1]
        /\ UNCHANGED <<store, saved, last, input, payload, output, db>>

\* self._client = ...
AssignClient ==
    \E w \in 1..Len(threads) :
        /\ threads[w].pc = "assign"
        /\ backend' = [backend EXCEPT !.client = threads[w].client]
        /\ threads' = [threads EXCEPT ![w].pc = "return"]
        /\ UNCHANGED <<store, saved, last, input, payload, output, db>>

\* return self._client
ReturnClient ==
    \E w \in 1..Len(threads) :
        /\ threads[w].pc = "return"
        /\ threads' = [threads EXCEPT ![w].pc = "use", ![w].client = backend.client]
        /\ UNCHANGED <<store, saved, last, input, payload, output, db, backend>>

\* the operation's call on the client it got
UseClient ==
    \E w \in 1..Len(threads) :
        /\ threads[w].pc = "use"
        /\ threads' = [threads EXCEPT ![w].pc = "done"]
        /\ UNCHANGED <<store, saved, last, input, payload, output, db, backend>>

NextClient ==
    \/ StartCall
    \/ CheckClient
    \/ ConstructClient
    \/ AssignClient
    \/ ReturnClient
    \/ UseClient

SpecClient == InitClient /\ [][NextClient]_vars

---------------------------------------------------------------------------
(* long_term_storage.py: list_prefix of the vendor adapters.  The vendor's   *)
(* bucket is a sequence of entries <<key, is_prefix>> in the vendor's key    *)
(* order; the vendor answers a listing in pages of at most pageSize entries. *)
(* `last.arg` is the bucket, `last.key` the prefix, `last.k` the page size.  *)

\* the largest page a vendor returns
MaxPage == 3

\* max_keys=1000 of BosStorage.list_prefix
BosMaxKeys == 1000

\* "a/" (a common-prefix entry), "a/1", "a/2", "ab", "b/1"
VendorEntries ==
    << <<<<97, 47>>, TRUE>>, <<<<97, 47, 49>>, FALSE>>, <<<<97, 47, 50>>, FALSE>>,
       <<<<97, 98>>, FALSE>>, <<<<98, 47, 49>>, FALSE>> >>

\* the buckets: the entries of a subset, in key order
VendorBuckets ==
    { SelectSeq(VendorEntries, LAMBDA e : e \in chosen)
        : chosen \in SUBSET {VendorEntries[i] : i \in 1..Len(VendorEntries)} }

\* buckets of S3 and BOS hold objects only
ObjectBuckets == {b \in VendorBuckets : \A i \in 1..Len(b) : ~b[i][2]}

\* "", "a/", "a", "c"
ListPrefixes == {<<>>, <<97, 47>>, <<97>>, <<99>>}

\* the vendor's filter by prefix
MatchingEntries(objects, prefix) == SelectSeq(objects, LAMBDA e : startswith(e[1], prefix))

\* the index in the listing of the first entry after the marker
AfterMarker(listing, marker) ==
    IF marker = PyNone THEN 1
    ELSE 1 + Cardinality({i \in 1..Len(listing) : PyStr(listing[i][1]) = marker})
           + Cardinality({i \in 1..Len(listing) :
                            \E j \in (i + 1)..Len(listing) : PyStr(listing[j][1]) = marker})

\* BosClient.list_objects(bucket_name, prefix, marker, max_keys): resp.body
list_objects(objects, prefix, marker, max_keys, pageSize) ==
    LET listing == MatchingEntries(objects, prefix)
        first == AfterMarker(listing, marker)
        end == Min(Len(listing), first + Min(max_keys, pageSize) - 1)
    IN [contents |-> SubSeq(listing, first, end),
        is_truncated |-> end < Len(listing),
        next_marker |-> IF end < Len(listing) THEN PyStr(listing[end][1]) ELSE PyNone]

\* the pages of a listing from entry `first` on
RECURSIVE PagesFrom(_, _, _)
PagesFrom(listing, first, pageSize) ==
    IF first > Len(listing) THEN <<>>
    ELSE <<PyList(SubSeq(listing, first, Min(Len(listing), first + pageSize - 1)))>>
         \o PagesFrom(listing, first + pageSize, pageSize)

\* paginator.paginate(Bucket, Prefix): the pages' "Contents"; the page of an
\* empty listing has none
paginate(objects, prefix, pageSize) ==
    IF MatchingEntries(objects, prefix) = <<>> THEN <<PyNone>>
    ELSE PagesFrom(MatchingEntries(objects, prefix), 1, pageSize)

\* oss2.ObjectIterator(bucket, prefix=prefix): the entries of every page
ObjectIterator(objects, prefix, pageSize) ==
    Concat([i \in 1..Len(PagesFrom(MatchingEntries(objects, prefix), 1, pageSize)) |->
                Val(PagesFrom(MatchingEntries(objects, prefix), 1, pageSize)[i])])

KeysOf(entries) == [i \in 1..Len(entries) |-> entries[i][1]]

\* page.get("Contents") or []
ContentsOf(page) == IF page = PyNone THEN <<>> ELSE Val(page)

S3CompatibleStorage_list_prefix(objects, prefix, pageSize) ==
    PyList(Concat([i \in 1..Len(paginate(objects, prefix, pageSize)) |->
                       KeysOf(ContentsOf(paginate(objects, prefix, pageSize)[i]))]))

\* BosStorage.list_prefix that returns after its first request
BosListFirstPage(objects, prefix, marker, pageSize, keys) ==
    keys \o KeysOf(list_objects(objects, prefix, marker, BosMaxKeys, pageSize).contents)

\* the while True loop of BosStorage.list_prefix
RECURSIVE BosListLoop(_, _, _, _, _)
BosListLoop(objects, prefix, marker, pageSize, keys) ==
    LET resp == list_objects(objects, prefix, marker, BosMaxKeys, pageSize) IN
    IF ~resp.is_truncated THEN keys \o KeysOf(resp.contents)
    ELSE BosListLoop(objects, prefix, resp.next_marker, pageSize, keys \o KeysOf(resp.contents))

BosStorage_list_prefix(objects, prefix, pageSize) ==
    PyList(BosListLoop(objects, prefix, PyNone, pageSize, <<>>))

OssStorage_list_prefix(objects, prefix, pageSize) ==
    PyList(KeysOf(SelectSeq(ObjectIterator(objects, prefix, pageSize), LAMBDA obj : ~obj[2])))

ListCall(op, objects, prefix, pageSize, ret) ==
    /\ Idle
    /\ last' = Call(op, prefix, PyList(objects), pageSize, ret, store)
    /\ UNCHANGED <<store, saved, input, payload, output, threads, db, backend>>

S3ListPrefix ==
    \E objects \in ObjectBuckets, prefix \in ListPrefixes, pageSize \in 1..MaxPage :
        ListCall("S3CompatibleStorage.list_prefix", objects, prefix, pageSize,
                 S3CompatibleStorage_list_prefix(objects, prefix, pageSize))

BosListPrefix ==
    \E objects \in ObjectBuckets, prefix \in ListPrefixes, pageSize \in 1..MaxPage :
        ListCall("BosStorage.list_prefix", objects, prefix, pageSize,
                 BosStorage_list_prefix(objects, prefix, pageSize))

OssListPrefix ==
    \E objects \in VendorBuckets, prefix \in ListPrefixes, pageSize \in 1..MaxPage :
        ListCall("OssStorage.list_prefix", objects, prefix, pageSize,
                 OssStorage_list_prefix(objects, prefix, pageSize))

NextList == S3ListPrefix \/ BosListPrefix \/ OssListPrefix \/ Return

SpecList == Init /\ [][NextList]_vars

---------------------------------------------------------------------------
(* long_term_storage.py: put_object of the vendor adapters.  What reaches    *)
(* the vendor's SDK is the call: its method, the key, the data and the       *)
(* content type given with it (Unset when the call carries none).  Here      *)
(* `last.arg` is <<body, content_type>>, `last.k` is 1 when the BOS client   *)
(* has put_object_from_data, and `output` is the call made on the SDK.       *)

\* "application/json"
ApplicationJson == PyStr(<<97, 112, 112, 108, 105, 99, 97, 116, 105, 111, 110, 47, 106, 115, 111, 110>>)

\* "application/octet-stream"
OctetStream == PyStr(<<97, 112, 112, 108, 105, 99, 97, 116, 105, 111, 110, 47, 111, 99, 116, 101, 116, 45, 115, 116, 114, 101, 97, 109>>)

\* the content_type arguments: None (the default), "", and two types
PutContentTypes == {PyNone, PyStr(<<>>), ApplicationJson, PyStr(<<116>>)}

PutKeys == {<<107>>, <<20013>>}

SdkCall(method, key, data, content_type) == <<method, key, data, content_type>>

NoSdkCall == <<"none", <<>>, PyNone, Unset>>

PutOutcome(call, ret) == [call |-> call, ret |-> ret]

\* extra["ContentType"] / headers["Content-Type"], set only if content_type
HeaderOf(content_type) == IF Truthy(content_type) THEN content_type ELSE Unset

S3CompatibleStorage_put_object(key, body, content_type) ==
    IF Kind(EncodeBody(body)) = "raise" THEN PutOutcome(NoSdkCall, EncodeBody(body))
    ELSE PutOutcome(SdkCall("put_object", key, EncodeBody(body), HeaderOf(content_type)), PyNone)

BosStorage_put_object(key, body, content_type, has_from_data) ==
    IF Kind(body) = "str"
    THEN PutOutcome(SdkCall("put_object_from_string", key, body, Unset), PyNone)
    ELSE IF has_from_data
    THEN PutOutcome(SdkCall("put_object_from_data", key, body, PyOr(content_type, OctetStream)),
                    PyNone)
    ELSE IF Kind(Utf8Decode(Val(body))) = "raise"
    THEN PutOutcome(NoSdkCall, Utf8Decode(Val(body)))
    ELSE PutOutcome(SdkCall("put_object_from_string", key, Utf8Decode(Val(body)), Unset), PyNone)

OssStorage_put_object(key, body, content_type) ==
    IF Kind(EncodeBody(body)) = "raise" THEN PutOutcome(NoSdkCall, EncodeBody(body))
    ELSE PutOutcome(SdkCall("put_object", key, EncodeBody(body), HeaderOf(content_type)), PyNone)

VendorPut(op, key, body, content_type, k, out) ==
    /\ Idle
    /\ last' = Call(op, key, <<body, content_type>>, k, out.ret, store)
    /\ output' = out.call
    /\ UNCHANGED <<store, saved, input, payload, threads, db, backend>>

S3PutObject ==
    \E key \in PutKeys, body \in BodyPool, content_type \in PutContentTypes :
        VendorPut("S3CompatibleStorage.put_object", key, body, content_type, 0,
                  S3CompatibleStorage_put_object(key, body, content_type))

BosPutObject ==
    \E key \in PutKeys, body \in BodyPool, content_type \in PutContentTypes,
       has_from_data \in BOOLEAN :
        VendorPut("BosStorage.put_object", key, body, content_type,
                  IF has_from_data THEN 1 ELSE 0,
                  BosStorage_put_object(key, body, content_type, has_from_data))

OssPutObject ==
    \E key \in PutKeys, body \in BodyPool, content_type \in PutContentTypes :
        VendorPut("OssStorage.put_object", key, body, content_type, 0,
                  OssStorage_put_object(key, body, content_type))

NextPut == S3PutObject \/ BosPutObject \/ OssPutObject \/ Return

SpecPut == Init /\ [][NextPut]_vars

---------------------------------------------------------------------------
(* Claims about InMemoryLongTermStorage, checked under Spec *)

Live(key) == HasKey(saved, key)

\* p is an initial segment of k
PrefixOf(p, k) == Len(p) <= Len(k) /\ \A i \in 1..Len(p) : k[i] = p[i]

NoRepeat(xs) == \A i, j \in 1..Len(xs) : i # j => xs[i] # xs[j]

\* C1: get_object(k) returns exactly the payload of the most recent
\* put_object(k, v) that no delete_object(k) has followed: v itself when v is
\* bytes, the UTF-8 encoding of v when v is text; nothing of an earlier value
\* of k remains.
C1_GetReturnsLastPut ==
    (last.op = "get_object" /\ Live(last.key)) =>
        LET v == Lookup(saved, last.key) IN
        /\ Kind(last.ret) = "bytes"
        /\ Kind(v) = "bytes" => last.ret = v
        /\ Kind(v) = "str" => Utf8Decode(Val(last.ret)) = v

\* a get of a key that was overwritten with text returns the text's UTF-8 bytes
C1_Witness ==
    /\ last.op = "get_object"
    /\ Live(last.key)
    /\ Lookup(saved, last.key) = PyStr(<<20013>>)
    /\ last.ret = PyBytes(<<228, 184, 173>>)
    /\ Len(store) = MaxKeys

\* C2: get_object(k) returns None exactly when k was never put or was deleted
\* after its last put; it never raises and never changes the store.
C2_GetMissingIsNone ==
    last.op = "get_object" =>
        /\ last.ret = PyNone <=> ~Live(last.key)
        /\ Kind(last.ret) \in {"None", "bytes"}
        /\ store = last.before

\* a get of a missing key on a non-empty store returned None
C2_Witness ==
    /\ last.op = "get_object"
    /\ ~Live(last.key)
    /\ last.ret = PyNone
    /\ store # EmptyStore

\* C3: delete_object is idempotent: deleting a missing key raises nothing and
\* leaves the whole store unchanged, deleting k again after deleting k changes
\* nothing, and deleting k never changes another key.
C3_DeleteIdempotent ==
    last.op = "delete_object" =>
        /\ last.ret = PyNone
        /\ ~HasKey(last.before, last.key) => store = last.before
        /\ delete_object(store, last.key) = Outcome(store, PyNone)
        /\ \A k \in KeyPool \ {last.key} : get_object(store, k) = get_object(last.before, k)

\* a delete of a missing key on a store that holds other keys
C3_Witness ==
    /\ last.op = "delete_object"
    /\ ~HasKey(last.before, last.key)
    /\ last.ret = PyNone
    /\ Len(store) = MaxKeys

\* C4: list_prefix(p) returns, as a set, exactly the live keys whose name
\* begins with p, and no key twice.
C4_ListPrefixExact ==
    last.op = "list_prefix" =>
        LET keys == Val(last.ret) IN
        /\ {keys[i] : i \in 1..Len(keys)} = {k \in KeyPool : Live(k) /\ PrefixOf(last.key, k)}
        /\ NoRepeat(keys)

\* a listing that returns one of the two stored keys and leaves the other out
C4_Witness ==
    /\ last.op = "list_prefix"
    /\ Len(store) = 2
    /\ Len(Val(last.ret)) = 1
    /\ last.key # <<>>

---------------------------------------------------------------------------
(* Claims about the codecs, checked under SpecCodec *)

\* the characters of the strings (keys included) of a value
RECURSIVE CharsOf(_)
CharsOf(v) ==
    CASE Kind(v) = "str" -> {Val(v)[i] : i \in 1..Len(Val(v))}
      [] Kind(v) = "list" -> UNION {CharsOf(Val(v)[i]) : i \in 1..Len(Val(v))}
      [] Kind(v) = "dict" ->
            UNION { {Val(v)[i][1][j] : j \in 1..Len(Val(v)[i][1])} \cup CharsOf(Val(v)[i][2])
                    : i \in 1..Len(Val(v)) }
      [] OTHER -> {}

NonAscii(v) == {c \in CharsOf(v) : c > 127}

\* C5: parse_profile(serialize_profile(p)) = p for every profile map p, and
\* every non-ASCII character of p stands in the serialized bytes as its UTF-8
\* encoding, not as a \u escape.
C5_ProfileRoundTrip ==
    Kind(input) = "dict" =>
        /\ payload # Unset =>
              /\ Kind(payload) = "bytes"
              /\ \A c \in NonAscii(input) : Contains(Val(payload), EncodeChar(c))
        /\ output # Unset => output = input

\* a profile with MaxFields entries and non-ASCII text came back from its payload
C5_Witness ==
    /\ Kind(input) = "dict"
    /\ Len(Val(input)) = MaxFields
    /\ NonAscii(input) # {}
    /\ output = input

\* C6: parse_triples(serialize_triples(t)) = t, with the same length and order,
\* for every list t of string triples.
C6_TriplesRoundTrip ==
    (Kind(input) = "list" /\ output # Unset) =>
        /\ Kind(output) = "list"
        /\ Len(Val(output)) = Len(Val(input))
        /\ \A i \in 1..Len(Val(input)) : Val(output)[i] = Val(input)[i]

\* a list of MaxTriples triples with an empty field, whitespace and an escaped
\* character came back from its payload
C6_Witness ==
    /\ Kind(input) = "list"
    /\ Len(Val(input)) = MaxTriples
    /\ Val(input)[1] = <<<<>>, <<32>>, <<97, 32, 98>>>>
    /\ Val(input)[MaxTriples] = <<<<34>>, <<92>>, <<10>>>>
    /\ output = input

---------------------------------------------------------------------------
(* Claims about the semantic layer, checked under SpecSem and SpecRetrieve *)

\* the argument of the most recent save of `kind` for user_id
LastSaved(kind, user_id) == Lookup(saved, <<kind, user_id>>)

\* the triples most recently saved for user_id, none if there was no save
StoredTriples(user_id) ==
    IF Live(<<"knowledge", user_id>>) THEN Val(LastSaved("knowledge", user_id)) ELSE <<>>

\* C7: after any sequence of saves, load_knowledge_triples(u) returns the list
\* of the most recent save_knowledge_triples for u and load_user_profile(u) the
\* map of the most recent save_user_profile for u, whatever was saved before
\* for u, for another user or of the other kind.
C7_LoadReturnsLastSave ==
    /\ (last.op = "load_knowledge_triples" /\ Live(<<"knowledge", last.key>>)) =>
            last.ret = LastSaved("knowledge", last.key)
    /\ (last.op = "load_user_profile" /\ Live(<<"profile", last.key>>)) =>
            last.ret = LastSaved("profile", last.key)

\* a load of u1's triples returned the saved list while the store also holds
\* the triples of u2, saved later
C7_Witness ==
    /\ last.op = "load_knowledge_triples"
    /\ last.key = <<117, 49>>
    /\ Len(saved) = 2
    /\ saved[1][1] = <<"knowledge", <<117, 49>>>>
    /\ saved[2][1] = <<"knowledge", <<117, 50>>>>
    /\ Len(Val(last.ret)) = 2
    /\ last.ret = saved[1][2]
    /\ last.ret # saved[2][2]

\* C8: for a user whose key is absent, load_user_profile returns None,
\* load_knowledge_triples and retrieve_relevant_knowledge return the empty
\* list; none of the three raises, and none changes the store.
C8_NotFoundIsNoError ==
    /\ (last.op = "load_user_profile" /\ ~HasKey(last.before, profile_key(last.key))) =>
            last.ret = PyNone
    /\ (last.op \in {"load_knowledge_triples", "retrieve_relevant_knowledge"}
            /\ ~HasKey(last.before, knowledge_key(last.key))) =>
            last.ret = PyList(<<>>)
    /\ last.op \in {"load_user_profile", "load_knowledge_triples", "retrieve_relevant_knowledge"} =>
            /\ Kind(last.ret) # "raise"
            /\ store = last.before

\* a retrieve with a matching query for a user without triples, on a store
\* that holds another user's triples, returned the empty list
C8_Witness ==
    /\ last.op = "retrieve_relevant_knowledge"
    /\ ~HasKey(last.before, knowledge_key(last.key))
    /\ last.before # EmptyStore
    /\ last.arg = PyStr(<<116, 101, 97>>)
    /\ last.k = DefaultTopK
    /\ last.ret = PyList(<<>>)

\* xs is an initial segment of ys
IsPrefix(xs, ys) == Len(xs) <= Len(ys) /\ xs = SubSeq(ys, 1, Len(xs))

\* the query of a retrieve has only whitespace, or nothing
Blank(query) == \A i \in 1..Len(query) : IsPySpace(query[i])

\* C9: for an empty or whitespace-only query, retrieve_relevant_knowledge
\* returns a prefix of the user's stored list, unfiltered: its first top_k
\* triples (all of them when there are fewer) for top_k >= 0.
C9_BlankQueryPrefix ==
    (last.op = "retrieve_relevant_knowledge" /\ Blank(Val(last.arg))) =>
        /\ Kind(last.ret) = "list"
        /\ IsPrefix(Val(last.ret), StoredTriples(last.key))
        /\ last.k >= 0 =>
              Len(Val(last.ret)) = Min(last.k, Len(StoredTriples(last.key)))

\* a whitespace-only query with top_k = 1 returned the first of MaxTriples
\* stored triples, which differs from the last
C9_Witness ==
    /\ last.op = "retrieve_relevant_knowledge"
    /\ last.arg = PyStr(<<32, 32>>)
    /\ last.k = 1
    /\ Len(StoredTriples(last.key)) = MaxTriples
    /\ StoredTriples(last.key)[1] # StoredTriples(last.key)[MaxTriples]
    /\ Val(last.ret) = <<StoredTriples(last.key)[1]>>

\* the query without the whitespace at its ends
Trimmed(query) ==
    LET inner == {i \in 1..Len(query) : ~IsPySpace(query[i])} IN
    IF inner = {} THEN <<>>
    ELSE SubSeq(query,
                CHOOSE i \in inner : \A j \in inner : i <= j,
                CHOOSE i \in inner : \A j \in inner : i >= j)

\* q occurs in subject + ' ' + predicate + ' ' + object, letter case aside
Hit(q, t) ==
    LET text == t[1] \o <<32>> \o t[2] \o <<32>> \o t[3] IN
    \E at \in 0..(Len(text) - Len(q)) :
        \A j \in 1..Len(q) : LowerChar(text[at + j]) = LowerChar(q[j])

\* C10: for a query that is not blank, retrieve_relevant_knowledge returns a
\* prefix of the stored triples that the trimmed query hits, in stored order:
\* the first top_k of them (all when there are fewer) for top_k >= 0.
C10_KeywordMatch ==
    (last.op = "retrieve_relevant_knowledge" /\ ~Blank(Val(last.arg))) =>
        LET hits == SelectSeq(StoredTriples(last.key),
                              LAMBDA t : Hit(Trimmed(Val(last.arg)), t)) IN
        /\ Kind(last.ret) = "list"
        /\ IsPrefix(Val(last.ret), hits)
        /\ last.k >= 0 => Len(Val(last.ret)) = Min(last.k, Len(hits))

\* the query "\tCUP " with top_k = 1 skipped a stored triple without "cup" and
\* returned ("用户", "LIKES", "Tea cup")
C10_Witness ==
    /\ last.op = "retrieve_relevant_knowledge"
    /\ last.arg = PyStr(<<9, 67, 85, 80, 32>>)
    /\ last.k = 1
    /\ Len(StoredTriples(last.key)) = MaxTriples
    /\ StoredTriples(last.key)[1][1] = <<65, 110, 110>>
    /\ Len(Val(last.ret)) = 1
    /\ Val(last.ret)[1][3] = <<84, 101, 97, 32, 99, 117, 112>>

\* C11: top_k is the maximum number of triples returned, for every stored
\* list, query and integer top_k: at most top_k triples, none when top_k <= 0.
C11_AtMostTopK ==
    (last.op = "retrieve_relevant_knowledge" /\ Kind(last.ret) = "list") =>
        Len(Val(last.ret)) <= Max(last.k, 0)

---------------------------------------------------------------------------
(* Claims about parse_triples on foreign payloads, checked under SpecLines *)

\* the lines that are not blank
NonBlankLines(lines) == SelectSeq(lines, LAMBDA l : ~Blank(l[1]))

\* C12: parse_triples returns, in line order, the first three elements as
\* text of every line that is a JSON array of three or more elements; shorter
\* arrays and other values are dropped without error, further elements are
\* ignored, and the blank lines make no difference to the result.
C12_ParseTriplesTolerant ==
    (Kind(input) = "lines" /\ output # Unset) =>
        /\ output = PyList(Concat([i \in 1..Len(Val(input)) |-> Val(input)[i][2]]))
        /\ output = parse_triples(Val(PayloadOf(NonBlankLines(Val(input)))))

\* a payload of a four-element line, an empty line and a two-element line
\* gave the one triple of the first
C12_Witness ==
    /\ Kind(input) = "lines"
    /\ Len(Val(input)) = 3
    /\ Val(input)[1][1] # <<>>
    /\ Head(Val(input)[1][1]) = 32
    /\ Val(input)[2][1] = <<>>
    /\ Val(input)[3][1] = <<91, 34, 97, 34, 44, 34, 98, 34, 93>>
    /\ output = PyList(<< <<<<120>>, <<233>>, <<122>>>> >>)

---------------------------------------------------------------------------
(* Claims about malformed payloads, checked under SpecMalformed *)

DecodeErrors == {PyRaise("JSONDecodeError"), PyRaise("UnicodeDecodeError")}

\* C13: parse_profile raises a decode error on a payload that is malformed as
\* a profile, parse_triples on one that is malformed as triples, returning no
\* list; load_user_profile, load_knowledge_triples and
\* retrieve_relevant_knowledge raise the same error when the stored payload is
\* malformed, and leave the store as it was.
C13_MalformedIsRaised ==
    /\ (last.op = "parse_profile" /\ Val(input)[2]) => last.ret \in DecodeErrors
    /\ (last.op = "parse_triples" /\ Val(input)[3]) => last.ret \in DecodeErrors
    /\ (last.op = "load_user_profile" /\ HasKey(last.before, profile_key(last.key))
            /\ Val(input)[2]) =>
            /\ last.ret = parse_profile(Val(payload))
            /\ last.ret \in DecodeErrors
            /\ store = last.before
    /\ (last.op \in {"load_knowledge_triples", "retrieve_relevant_knowledge"}
            /\ HasKey(last.before, knowledge_key(last.key)) /\ Val(input)[3]) =>
            /\ last.ret = parse_triples(Val(payload))
            /\ last.ret \in DecodeErrors
            /\ store = last.before

\* a retrieve over a stored payload whose second line is cut short raised
\* JSONDecodeError, though its first line is a triple that the query matches
C13_Witness ==
    /\ last.op = "retrieve_relevant_knowledge"
    /\ HasKey(last.before, knowledge_key(last.key))
    /\ Len(Val(payload)) > 30
    /\ Val(input)[3]
    /\ last.arg = PyStr(<<>>)
    /\ last.ret = PyRaise("JSONDecodeError")
    /\ Len(store) = MaxKeys

---------------------------------------------------------------------------
(* Claims about the key scheme, checked under SpecKeys *)

\* C14: for every user id u, unvalidated, profile_key(u) is
\* "profiles/" + u + ".json" and knowledge_key(u) is
\* "knowledge/" + u + ".jsonl"; each call returns a key.
C14_KeyScheme ==
    /\ last.op = "profile_key" =>
            last.ret = PyStr(<<112, 114, 111, 102, 105, 108, 101, 115, 47>> \o last.key
                             \o <<46, 106, 115, 111, 110>>)
    /\ last.op = "knowledge_key" =>
            last.ret = PyStr(<<107, 110, 111, 119, 108, 101, 100, 103, 101, 47>> \o last.key
                             \o <<46, 106, 115, 111, 110, 108>>)

\* the profile key of an id of MaxIdLen characters that has a "/" and a
\* character outside ASCII
C14_Witness ==
    /\ last.op = "profile_key"
    /\ Len(last.key) = MaxIdLen
    /\ \E i \in 1..Len(last.key) : last.key[i] = 47
    /\ \E i \in 1..Len(last.key) : last.key[i] = 29992
    /\ Len(Val(last.ret)) = MaxIdLen + 14

---------------------------------------------------------------------------
(* Claims about the backend factory, checked under SpecFactory *)

\* the config holds, under name, text with a character that is not whitespace
Configured(config, name) ==
    \E i \in 1..Len(Val(config)) :
        /\ Val(config)[i][1] = name
        /\ Kind(Val(config)[i][2]) = "str"
        /\ ~Blank(Val(Val(config)[i][2]))

AllConfigured(config) ==
    \A name \in {OssEndpointField, OssBucketField, OssKeyIdField, OssKeySecretField} :
        Configured(config, name)

\* C15: create_long_term_backend_from_config never raises on a missing
\* field: it returns an OssStorage exactly when oss_endpoint, oss_bucket,
\* oss_access_key_id and oss_access_key_secret all hold text that is not
\* blank, and a fresh InMemoryLongTermStorage when any of them is absent,
\* None, empty or whitespace.
C15_FactoryAllOrNothing ==
    last.op = "create_long_term_backend_from_config" =>
        /\ Kind(last.ret) \in {"OssStorage", "InMemoryLongTermStorage"}
        /\ Kind(last.ret) = "OssStorage" <=> AllConfigured(last.arg)
        /\ Kind(last.ret) = "InMemoryLongTermStorage" => Val(last.ret) = EmptyStore

\* a config whose only fault is a bucket of whitespace gave the in-memory
\* backend
C15_Witness ==
    /\ last.op = "create_long_term_backend_from_config"
    /\ Len(Val(last.arg)) = 4
    /\ config_get(last.arg, OssBucketField) = PyStr(<<32, 9>>)
    /\ \A name \in {OssEndpointField, OssKeyIdField, OssKeySecretField} :
            Configured(last.arg, name)
    /\ last.ret = <<"InMemoryLongTermStorage", <<>>>>

---------------------------------------------------------------------------
(* Claims about the vendor adapters, checked under SpecVendor *)

\* the call met the vendor's signal for a missing key
NotFoundSignal ==
    \/ /\ last.op = "S3CompatibleStorage.get_object"
       /\ last.arg = PyRaise(<<"ClientError", PyStr(<<78, 111, 83, 117, 99, 104, 75, 101, 121>>)>>)
    \/ /\ last.op = "BosStorage.get_object"
       /\ last.arg = PyRaise(<<"BceError", PyInt(404)>>)
    \/ /\ last.op = "OssStorage.get_object"
       /\ last.arg = PyRaise(<<"NoSuchKey", PyNone>>)

\* C16: get_object of each vendor adapter returns None on the vendor's signal
\* for a missing key (S3: ClientError with code NoSuchKey, BOS: BceError with
\* status_code 404, OSS: NoSuchKey) and nowhere else: every other error is
\* raised as the vendor raised it, and a body is returned as it came.
C16_NotFoundMapsToNone ==
    last.op \in {"S3CompatibleStorage.get_object", "BosStorage.get_object",
                 "OssStorage.get_object"} =>
        /\ NotFoundSignal => last.ret = PyNone
        /\ ~NotFoundSignal => last.ret = last.arg

\* a BceError with status_code 403 left BosStorage.get_object as it came
C16_Witness ==
    /\ last.op = "BosStorage.get_object"
    /\ last.arg = PyRaise(<<"BceError", PyInt(403)>>)
    /\ last.ret = last.arg

---------------------------------------------------------------------------
(* Claims about concurrent writers, checked under SpecWriters *)

\* the stored bytes are the whole value that thread t wrote, and nothing else
HoldsValueOf(bytes, t) ==
    CASE t.op = "save_user_profile" -> parse_profile(bytes) = t.arg
      [] t.op = "save_knowledge_triples" -> parse_triples(bytes) = t.arg
      [] Kind(t.arg) = "str" -> Utf8Decode(bytes) = t.arg
      [] OTHER -> bytes = Val(t.arg)

\* C17: writers that put or save to the same key at once: in every
\* interleaving the key holds the whole value of the writer whose put ran
\* last, no mixture of two values, and every put returns without an error.
C17_LastWriterWins ==
    /\ \A i \in 1..Len(saved) :
            /\ HasKey(store, saved[i][1])
            /\ HoldsValueOf(Lookup(store, saved[i][1]), threads[saved[i][2]])
    /\ \A w \in 1..Len(threads) : threads[w].pc = "done" => threads[w].ret = PyNone

\* two writers of the shared key are done; the first to call stored last,
\* after the second's text, and the key holds the first's profile
C17_Witness ==
    /\ Len(threads) = MaxWriters
    /\ \A w \in 1..Len(threads) : threads[w].pc = "done" /\ threads[w].key = SharedKey
    /\ threads[1].op = "save_user_profile"
    /\ threads[1].arg # PyDict(<<>>)
    /\ threads[MaxWriters].op = "put_object"
    /\ Kind(threads[MaxWriters].arg) = "str"
    /\ Lookup(saved, SharedKey) = 1
    /\ parse_profile(Lookup(store, SharedKey)) = threads[1].arg

---------------------------------------------------------------------------
(* Claims about db.py, checked under SpecDb *)

\* the last call was a scope that got its session
ScopeEntered ==
    /\ last.op \in {"session_scope", "sync_session_scope"}
    /\ last.k = 1

CountOf(calls, name) == Cardinality({i \in 1..Len(calls) : calls[i] = name})

\* the exception the body of the last scope raised
BodyException == IF last.arg[1] = "Exception" THEN "BodyError" ELSE "CancelledError"

\* C18: session_scope and sync_session_scope: when the body completes
\* without an exception the session is committed once and not rolled back;
\* when the body raises, the session is never committed, it is rolled back,
\* and the same exception is re-raised; sync_session_scope closes its
\* session on both paths.
C18_CommitOrRollback ==
    ScopeEntered =>
        /\ last.arg[1] = "returns" =>
                /\ CountOf(Val(output), "commit") = 1
                /\ CountOf(Val(output), "rollback") = 0
        /\ last.arg[1] # "returns" =>
                /\ CountOf(Val(output), "commit") = 0
                /\ CountOf(Val(output), "rollback") = 1
                /\ last.ret = PyRaise(BodyException)
        /\ last.op = "sync_session_scope" => CountOf(Val(output), "close") = 1

\* the db.py calls that need a URL
NeedsUrl ==
    {"get_engine", "get_sync_engine", "get_session_factory", "session_scope",
     "sync_session_scope"}

\* C19: get_engine, get_sync_engine, get_session_factory and the session
\* scopes, called without a database_url while set_database_url set no
\* default, raise RuntimeError, and the failing call creates no engine and
\* no session factory.
C19_NoUrlIsRuntimeError ==
    (last.op \in NeedsUrl /\ last.key = PyNone /\ last.before.default_url = PyNone) =>
        /\ last.ret = PyRaise("RuntimeError")
        /\ db = last.before

\* get_session_factory() fails while an engine made from an explicit URL
\* exists and no default is set: nothing is added
C19_Witness ==
    /\ last.op = "get_session_factory"
    /\ last.key = PyNone
    /\ last.before.default_url = PyNone
    /\ last.ret = PyRaise("RuntimeError")
    /\ db.engine # PyNone
    /\ db.session_factory = PyNone

---------------------------------------------------------------------------
(* Claims about the vendor client, checked under SpecClient *)

\* C21: a vendor backend instance constructs its SDK client at most once,
\* and every operation uses that one client, also when the first operations
\* are issued concurrently.
C21_OneClient ==
    /\ backend.constructed <= 1
    /\ \A v, w \in 1..Len(threads) :
            (threads[v].pc \in {"use", "done"} /\ threads[w].pc \in {"use", "done"}) =>
                threads[v].client = threads[w].client

---------------------------------------------------------------------------
(* Claims about list_prefix of the vendor adapters, checked under SpecList *)

VendorListOps ==
    {"S3CompatibleStorage.list_prefix", "BosStorage.list_prefix", "OssStorage.list_prefix"}

\* the keys of the bucket's objects that start with the prefix, in the
\* bucket's order, common-prefix entries left out
ObjectKeysUnder(objects, prefix) ==
    LET hits == SelectSeq(objects, LAMBDA e : ~e[2] /\ IsPrefix(prefix, e[1]))
    IN [i \in 1..Len(hits) |-> hits[i][1]]

\* C22: list_prefix of a vendor adapter drains the pagination: whatever the
\* page size, the result is every matching key of every page in page order
\* (for OSS without the directory placeholder entries).
C22_ListDrainsPages ==
    last.op \in VendorListOps =>
        last.ret = PyList(ObjectKeysUnder(Val(last.arg), last.key))

\* a BOS listing of three matching keys answered one key a page
C22_Witness ==
    /\ last.op = "BosStorage.list_prefix"
    /\ last.k = 1
    /\ last.key = <<97>>
    /\ Len(Val(last.arg)) = 4
    /\ last.ret = PyList(<< <<97, 47, 49>>, <<97, 47, 50>>, <<97, 98>> >>)

---------------------------------------------------------------------------
(* Claims about put_object of the vendor adapters, checked under SpecPut *)

VendorPutOps ==
    {"S3CompatibleStorage.put_object", "BosStorage.put_object", "OssStorage.put_object"}

\* C23: in every vendor adapter put_object accepts text and raw bytes, and
\* the call it makes on the vendor API carries the content_type that was
\* provided, for either kind of payload, and none when none was given.
C23_ContentTypePassed ==
    last.op \in VendorPutOps =>
        /\ last.ret = PyNone
        /\ output[4] = (IF last.arg[2] # PyNone /\ Val(last.arg[2]) # <<>>
                        THEN last.arg[2] ELSE Unset)

---------------------------------------------------------------------------
(* Claims about endpoint normalization, checked under SpecFactory *)

HttpScheme == <<104, 116, 116, 112, 58, 47, 47>>

HttpsScheme == <<104, 116, 116, 112, 115, 58, 47, 47>>

HasScheme(ep) == IsPrefix(HttpScheme, ep) \/ IsPrefix(HttpsScheme, ep)

\* s without its trailing slashes
NoTrailingSlash(s) ==
    LET keep == {n \in 0..Len(s) : (n = 0 \/ s[n] # 47) /\ \A i \in (n + 1)..Len(s) : s[i] = 47}
    IN SubSeq(s, 1, CHOOSE n \in keep : TRUE)

\* _normalize_oss_endpoint returns None for a None, empty or blank endpoint,
\* and otherwise the trimmed endpoint without trailing slashes, with https://
\* put before it unless it starts with http:// or https://
C24_NormalizedValue ==
    last.op = "_normalize_oss_endpoint" =>
        IF last.arg = PyNone \/ Blank(Val(last.arg)) THEN last.ret = PyNone
        ELSE last.ret = PyStr(IF HasScheme(NoTrailingSlash(Trimmed(Val(last.arg))))
                              THEN NoTrailingSlash(Trimmed(Val(last.arg)))
                              ELSE HttpsScheme \o NoTrailingSlash(Trimmed(Val(last.arg))))

\* C24: endpoint normalization: _normalize_oss_endpoint returns None for a
\* None, empty or whitespace-only endpoint and otherwise the trimmed endpoint
\* without trailing slashes, with https:// before a bare hostname, so that the
\* endpoint of every OssStorage built by the factory starts with http:// or
\* https://.
C24_EndpointQualified ==
    /\ C24_NormalizedValue
    /\ (last.op = "create_long_term_backend_from_config" /\ Kind(last.ret) = "OssStorage") =>
            HasScheme(Val(last.ret)[4])

---------------------------------------------------------------------------
(* Claims about what a keyword matches, checked under SpecRetrieve *)

\* the query occurs in the field, letter case aside
FieldHit(q, field) ==
    \E at \in 0..(Len(field) - Len(q)) :
        \A j \in 1..Len(q) : LowerChar(field[at + j]) = LowerChar(q[j])

InOneField(q, t) == FieldHit(q, t[1]) \/ FieldHit(q, t[2]) \/ FieldHit(q, t[3])


---------------------------------------------------------------------------
(* Claims about the engine singletons, checked under SpecDb *)

\* the global that the last call returns: made before the call, or None
MadeBefore ==
    CASE last.op = "get_engine" -> last.before.engine
      [] last.op = "get_sync_engine" -> last.before.sync_engine
      [] last.op = "get_session_factory" -> last.before.session_factory
      [] OTHER -> PyNone

\* the last call had no URL: no database_url (None or "") and no default
WithoutUrl ==
    /\ last.key = PyNone \/ last.key = PyStr(<<>>)
    /\ last.before.default_url = PyNone

\* C26 as stated: once get_engine, get_sync_engine or get_session_factory
\* has created its object, every later call returns that same object.
C26_EngineSingleton ==
    MadeBefore # PyNone => last.ret = MadeBefore

\* C26 amended: once the object is created, every later call that has a URL
\* (its database_url or the default) returns that same object and leaves the
\* globals as they are, whatever the URL; a later call without any URL still
\* raises RuntimeError.
C26_SingletonGivenUrl ==
    MadeBefore # PyNone =>
        /\ db = last.before
        /\ last.ret = (IF WithoutUrl THEN PyRaise("RuntimeError") ELSE MadeBefore)

\* the engine was made for one URL; after set_database_url with another,
\* get_sync_engine with that other URL returns the engine of the first
C26_Witness ==
    /\ last.op = "get_sync_engine"
    /\ last.key = UrlB
    /\ last.before.default_url = UrlB
    /\ last.ret = <<"Engine", SyncDriver \o <<58, 47, 47, 97>>>>
    /\ db.sync_engine = last.ret

====
